---- MODULE Spec2Model ----
(***************************************************************************)
(* Verification model of the keyframe-indexer crate.                       *)
(*                                                                         *)
(* Several state machines share this module, each with its own             *)
(* specification:                                                          *)
(*   WSpec    one columnar writer (frames, OCR or events) and its          *)
(*            output directory                                             *)
(*   QSpec    the OCR writer's query_by_frame_id over an output directory  *)
(*   DSpec    two runs of DeltaAnalyzer::analyze_frame over one sequence   *)
(*            of frames, with the event detector and the event store       *)
(*   SvcSpec  the indexer process: main, IndexerService::start_watching    *)
(*            and the FileWatcher task                                     *)
(*   NavSpec  NavigationIntegrationService::process_frame with the         *)
(*            navigation detector, cursor tracker and correlator it owns   *)
(*   CSpec    an EventCorrelator on its own: add_* calls and               *)
(*            analyze_correlations                                         *)
(*   SceneSpec  one call of SceneDetector::detect_scene_changes            *)
(*   FSpec    single calls of analyze_text_for_errors_modals, of           *)
(*            match_regions with find_new_regions, and of the frame        *)
(*            interval of extract_keyframes                                *)
(*   KSpec    the event detector's frame cache over a long run of frames   *)
(*   PSpec    an EventCorrelator and the correlation patterns it keeps     *)
(*   PollSpec a NavigationDetector polled for the frontmost window         *)
(*   LongSpec a DeltaAnalyzer whose event writer's batch fills up          *)
(*   FairSvcSpec is SvcSpec under the fairness of the async runtime.       *)
(***************************************************************************)
EXTENDS Integers, Sequences, FiniteSets, TLC

(***************************************************************************)
(* Bounds of the model                                                     *)
(***************************************************************************)
\* rows handed to a writer over one run
MaxRows == 2
\* longest slice passed to one write_* call
MaxSlice == 2
\* the wall clock stops advancing at this tick
MaxClock == 2
\* largest value given to set_batch_size
MaxBatchSize == 2
\* files that appear in the watch directory over one run
MaxSegments == 3
\* frames handed to process_frame over one run
MaxFrames == 2
\* the navigation service's clock stops advancing at this tick
MaxNavClock == 1
\* frames handed to DeltaAnalyzer::analyze_frame over one run
MaxDetFrames == 3
\* add_* calls made one at a time on the correlator used on its own
MaxCorrSingles == 2
\* click histories fed to that correlator
MaxCorrBursts == 2
\* clicks of one such click history
CorrBurst == 500
\* keyframes handed to one detect_scene_changes call
MaxKeyframes == 3
\* OCR results of one frame whose regions are matched
MaxRegions == 2
\* frames cached over one run of the detector's frame cache
MaxCacheRun == 13
\* events added to the correlator whose patterns are followed
MaxPatEvents == 3
\* analyze_correlations calls on that correlator
MaxPatAnalyses == 2
\* polls of one navigation detector
MaxPolls == 4
\* the clock of those polls stops advancing at this tick
MaxPollClock == 2
\* frames of the long run of a delta analyzer
MaxRunFrames == 285
\* frames analysed after that run
MaxLateFrames == 2

(***************************************************************************)
(* Program constants                                                       *)
(***************************************************************************)
\* clock ticks per wall-clock second: the file name keeps whole seconds only
TicksPerSecond == 2
FramesBatchSize == 1000
OcrBatchSize == 5000
EventsBatchSize == 1000

\* one clock tick of the navigation service, in milliseconds
TickMs == 100
\* NavigationDetectionConfig::default().min_detection_interval_ms
MinDetectionIntervalMs == 100
\* NavigationDetectionConfig::default().min_confidence, in thousandths
NavMinConfidence == 800
\* CursorTrackingConfig::default().min_confidence, in thousandths
CursorMinConfidence == 800
\* CursorTrackingConfig::default().min_movement_distance
MinMovementDistance == 5
\* NavigationDetector.max_history_size
MaxFocusHistory == 100
\* CursorTracker.max_history_size
MaxPositionHistory == 1000
\* EventCorrelator.max_buffer_size
MaxBufferSize == 1000
\* CorrelationConfig::default().max_correlation_window_ms
MaxCorrelationWindowMs == 2000
\* CorrelationConfig::default().min_correlation_confidence, in thousandths
MinCorrelationConfidence == 600

\* capacity of the channel created in start_watching
ChannelCapacity == 100
\* event detection, in thousandths
MinOcrConfidence == 700
MinIouThreshold == 300
MinEventConfidence == 600
MaxCachedFrames == 10
MaxPreviousFrames == 5

WriterKinds == {"frames", "ocr", "events"}
\* confidences are in tenths; the confidence carried by the n-th row handed to the writer
RowConfidence(n) == IF n % 2 = 1 THEN 9 ELSE 2
\* thresholds a query is asked with, in tenths
Thresholds == {0, 5}
\* the frame a row belongs to, and the frame ids asked for by query_by_frame_id
RowFrameId(n) == n % 2
FrameIds == {0, 1}

VARIABLES
    \* ---- columnar writer ----
    w_kind,              \* which of the three writers this instance is
    current_batch,       \* Vec of rows not yet flushed
    batch_size,
    encryption_enabled,  \* OCR writer only
    output_dir,          \* path -> file content, or NoFile
    clock,               \* wall clock, in ticks
    w_written,           \* history: every row accepted by a write_* call
    w_last,              \* history: the writer call that has just returned
    w_failed_batch,      \* history: batch of a failed flush that awaits its retry
    w_flushes,           \* history: number of successful non-empty flushes
    w_query,             \* result of the last query_by_confidence
    w_fquery             \* history: the query_by_frame_id call that has just returned

VARIABLES
    \* ---- NavigationIntegrationService ----
    previous_window_state,  \* NavigationDetector: Option<WindowState>
    previous_tab_state,     \* NavigationDetector: Option<TabState>
    focus_history,          \* NavigationDetector: Vec<FocusEvent>
    last_position,          \* CursorTracker: Option<CursorPosition>
    position_history,       \* CursorTracker: VecDeque<CursorPosition>
    click_history,          \* CursorTracker: VecDeque<ClickEvent>
    event_buffer,           \* EventCorrelator: VecDeque<CorrelationEvent>
    event_writer_batch,     \* EventParquetWriter.current_batch of the service
    metrics,                \* NavigationMetrics
    nav_clock,              \* wall clock of the service, in ticks of TickMs
    nav_frames,             \* history: frames handed to process_frame
    nav_halted,             \* the frame loop returned early with an error
    nav_failed_frames,      \* history: the frames in which a probe failed
    nav_last                \* history: the process_frame call that has just returned

nvars == <<previous_window_state, previous_tab_state, focus_history, last_position,
           position_history, click_history, event_buffer, event_writer_batch,
           metrics, nav_clock, nav_frames, nav_halted, nav_failed_frames, nav_last>>

VARIABLES
    \* ---- main and IndexerService ----
    svc_pc,         \* where main is: "main", "start_watching", "watcher_start",
                    \* "keep_alive" (the loop that ends FileWatcher::start) or "exited"
    svc_exit,       \* how the process ended: "none", "code_1" or "signal"
    watch_dir,      \* --watch-dir: "absent", "missing" or "dir"
    fs_events,      \* std::sync::mpsc channel of FileWatcher::start: files notified
    svc_channel,    \* tokio mpsc channel of start_watching: segment paths sent
    svc_enqueued,   \* history: every segment sent into svc_channel, in order
    svc_processed,  \* history: positions in svc_enqueued whose segment was processed
    svc_logged,     \* history: positions in svc_enqueued whose failure was logged
    csv_batch,      \* CsvWriter.current_batch of the service
    svc_finalized,  \* history: a writer's finalize has run
    svc_shutdown,   \* history: a shutdown was requested
    keep_alive_phase \* parity of the iterations of FileWatcher::start's last loop

svars == <<svc_pc, svc_exit, watch_dir, fs_events, svc_channel, svc_enqueued,
           svc_processed, svc_logged, csv_batch, svc_finalized, svc_shutdown,
           keep_alive_phase>>

wvars == <<w_kind, current_batch, batch_size, encryption_enabled, output_dir,
           clock, w_written, w_last, w_failed_batch, w_flushes, w_query,
           w_fquery>>

VARIABLES
    det,          \* per run: the DeltaAnalyzer, what its last analyze_frame
                  \* returned and used, and its last query
    det_frames    \* frames analysed so far

dvars == <<det, det_frames>>

VARIABLES
    \* ---- an EventCorrelator used on its own ----
    corr_buffer,  \* EventCorrelator.event_buffer
    corr_added,   \* history: events handed to add_event so far
    corr_bursts,  \* history: slices of events added in one go so far
    corr_last,    \* history: the correlator call that has just returned
    \* ---- SceneDetector::detect_scene_changes ----
    scene,        \* the call's input, its locals and its position in the loop
    \* ---- one call of a function of the detectors ----
    applied,      \* history: the function just applied, its input and its result
    \* ---- an EventDetector's frame cache over a long run ----
    frame_cache,  \* EventDetector.previous_frame_cache
    cache_frames  \* history: frames cached so far

uvars == <<corr_buffer, corr_added, corr_bursts, corr_last, scene, applied,
           frame_cache, cache_frames>>

VARIABLES
    \* ---- an EventCorrelator and its correlation patterns ----
    corr_patterns,  \* EventCorrelator.correlation_patterns
    corr_returned,  \* history: the correlations analyze_correlations has returned
    corr_analyses,  \* history: analyze_correlations calls so far
    \* ---- a NavigationDetector polled for the frontmost window ----
    poll_emitted,   \* value_from and value_to of the event the last poll returned
    poll_pending,   \* history: the change seen too early to be reported, and the
                    \* later polls that found its window and did not report it
    \* ---- a DeltaAnalyzer over a long run of frames ----
    long_analyzer,  \* the DeltaAnalyzer: detector, recent frames, event writer
    long_frames,    \* frames analysed so far
    long_late,      \* frames analysed after the run
    long_ok         \* whether the last analyze_frame returned Ok

patvars == <<corr_patterns, corr_returned, corr_analyses>>
pollvars == <<poll_emitted, poll_pending>>
longvars == <<long_analyzer, long_frames, long_late, long_ok>>
pvars == <<patvars, pollvars, longvars>>

(***************************************************************************)
(* Files and paths                                                         *)
(***************************************************************************)
Seconds == 0..(MaxClock \div TicksPerSecond)
Extensions == {"parquet", "tmp.parquet", "query.tmp.parquet"}
Paths == Seconds \X Extensions

NoFile == [present |-> FALSE, rows |-> <<>>, complete |-> FALSE, encrypted |-> FALSE]
CompleteFile(rows, enc) ==
    [present |-> TRUE, rows |-> rows, complete |-> TRUE, encrypted |-> enc]
\* a file that was created (or truncated) and whose writing stopped part-way
PartialFile == [present |-> TRUE, rows |-> <<>>, complete |-> FALSE, encrypted |-> FALSE]

\* Utc::now().format("%Y%m%d_%H%M%S"): the sub-second part is dropped
FormatTimestamp(t) == t \div TicksPerSecond

\* output_dir.join(format!("<kind>_{}.parquet", timestamp))
FlushPath(t) == <<FormatTimestamp(t), "parquet">>

\* file_path.with_extension("tmp.parquet")
TempPath(p) == <<p[1], "tmp.parquet">>

DefaultBatchSize(kind) ==
    CASE kind = "frames" -> FramesBatchSize
      [] kind = "ocr"    -> OcrBatchSize
      [] OTHER           -> EventsBatchSize

(***************************************************************************)
(* write_record_batch                                                      *)
(***************************************************************************)
\* outcomes of ParquetWriter / EventParquetWriter::write_record_batch
DirectOutcomes == {"ok", "create_failed", "write_failed"}

\* File::create(file_path), ArrowWriter::try_new, write, close: the file is
\* created at its final path and filled in place.
WriteRecordBatch(dir, path, rows, outcome) ==
    CASE outcome = "create_failed" -> [ok |-> FALSE, dir |-> dir]
      [] outcome = "write_failed"  ->
            [ok |-> FALSE, dir |-> [dir EXCEPT ![path] = PartialFile]]
      [] OTHER ->
            [ok |-> TRUE, dir |-> [dir EXCEPT ![path] = CompleteFile(rows, FALSE)]]

\* outcomes of OCRParquetWriter::write_record_batch
OcrOutcomes(enc) ==
    {"ok", "create_failed", "write_failed"} \cup
    (IF enc THEN {"encrypt_failed", "encrypt_write_failed", "remove_failed"}
            ELSE {"rename_failed"})

\* The OCR writer fills <path>.tmp.parquet, then renames it to the final
\* path, or with encryption enabled encrypts it to the final path
\* (fs::write) and removes the temporary.
OcrWriteRecordBatch(dir, path, rows, enc, outcome) ==
    LET tmp == TempPath(path)
        filled == [dir EXCEPT ![tmp] = CompleteFile(rows, FALSE)]
    IN  CASE outcome = "create_failed" -> [ok |-> FALSE, dir |-> dir]
          [] outcome = "write_failed"  ->
                [ok |-> FALSE, dir |-> [dir EXCEPT ![tmp] = PartialFile]]
          [] outcome = "rename_failed" -> [ok |-> FALSE, dir |-> filled]
          [] outcome = "encrypt_failed" -> [ok |-> FALSE, dir |-> filled]
          [] outcome = "encrypt_write_failed" ->
                [ok |-> FALSE, dir |-> [filled EXCEPT ![path] = PartialFile]]
          [] outcome = "remove_failed" ->
                [ok |-> FALSE,
                 dir |-> [filled EXCEPT ![path] = CompleteFile(rows, TRUE)]]
          [] OTHER ->
                [ok |-> TRUE,
                 dir |-> [filled EXCEPT ![tmp] = NoFile,
                                        ![path] = CompleteFile(rows, enc)]]

FlushOutcomes(kind, enc) ==
    {"batch_failed"} \cup (IF kind = "ocr" THEN OcrOutcomes(enc) ELSE DirectOutcomes)

(***************************************************************************)
(* flush_batch                                                             *)
(***************************************************************************)
\* flush_batch that clears the batch before the file is written
FlushBatchClearsFirst(kind, enc, batch, dir, t, outcome) ==
    IF batch = <<>>
    THEN [ok |-> TRUE, flushed |-> FALSE, attempts |-> 0, batch |-> batch, dir |-> dir]
    ELSE IF outcome = "batch_failed"
    THEN [ok |-> FALSE, flushed |-> TRUE, attempts |-> 1, batch |-> <<>>, dir |-> dir]
    ELSE LET path == FlushPath(t)
             w == IF kind = "ocr"
                  THEN OcrWriteRecordBatch(dir, path, batch, enc, outcome)
                  ELSE WriteRecordBatch(dir, path, batch, outcome)
         IN  [ok |-> w.ok, flushed |-> TRUE, attempts |-> 1, batch |-> <<>>,
              dir |-> w.dir]

\* Result of flush_batch on (batch, dir) at clock t.  "flushed" tells whether
\* the call got past the empty-batch early return, "attempts" how many times
\* the call ran create_record_batch and write_record_batch on the batch.
FlushBatch(kind, enc, batch, dir, t, outcome) ==
    IF batch = <<>>
    THEN [ok |-> TRUE, flushed |-> FALSE, attempts |-> 0, batch |-> batch, dir |-> dir]
    ELSE IF outcome = "batch_failed"
    THEN \* create_record_batch returned Err: nothing touched
         [ok |-> FALSE, flushed |-> TRUE, attempts |-> 1, batch |-> batch, dir |-> dir]
    ELSE LET path == FlushPath(t)
             w == IF kind = "ocr"
                  THEN OcrWriteRecordBatch(dir, path, batch, enc, outcome)
                  ELSE WriteRecordBatch(dir, path, batch, outcome)
         IN  IF w.ok
             THEN [ok |-> TRUE, flushed |-> TRUE, attempts |-> 1, batch |-> <<>>,
                   dir |-> w.dir]
             ELSE [ok |-> FALSE, flushed |-> TRUE, attempts |-> 1, batch |-> batch,
                   dir |-> w.dir]

(***************************************************************************)
(* query_by_confidence                                                     *)
(***************************************************************************)
RECURSIVE SelectSeq2(_, _)
\* rows of s whose confidence is at least min
SelectSeq2(s, min) ==
    IF s = <<>> THEN <<>>
    ELSE IF Head(s).confidence >= min
         THEN <<Head(s)>> \o SelectSeq2(Tail(s), min)
         ELSE SelectSeq2(Tail(s), min)

RECURSIVE InsertDesc(_, _)
InsertDesc(r, s) ==
    IF s = <<>> THEN <<r>>
    ELSE IF r.confidence > Head(s).confidence
         THEN <<r>> \o s
         ELSE <<Head(s)>> \o InsertDesc(r, Tail(s))

RECURSIVE OrderByConfidenceDesc(_)
OrderByConfidenceDesc(s) ==
    IF s = <<>> THEN <<>>
    ELSE InsertDesc(Head(s), OrderByConfidenceDesc(Tail(s)))

\* get_parquet_files: every directory entry whose extension is "parquet";
\* x.tmp.parquet has that extension too
GetParquetFiles(dir) == {p \in Paths : dir[p].present}

\* the place of an extension in the name order of a directory listing
ExtRank(e) == CASE e = "parquet" -> 0 [] e = "query.tmp.parquet" -> 1 [] OTHER -> 2

\* name order of two paths of the output directory
PathBefore(q, r) == q[1] < r[1] \/ (q[1] = r[1] /\ ExtRank(q[2]) <= ExtRank(r[2]))

RECURSIVE ScanFiles(_, _)
\* rows of the listed files, in listing order
ScanFiles(dir, ps) ==
    IF ps = {} THEN <<>>
    ELSE LET p == CHOOSE q \in ps :
                     \A r \in ps : PathBefore(q, r)
         IN  dir[p].rows \o ScanFiles(dir, ps \ {p})

\* a file DataFusion can read: a closed, plaintext parquet file
Readable(f) == f.present /\ f.complete /\ ~f.encrypted

\* SELECT * FROM '<dir>/*.parquet' WHERE confidence >= min ORDER BY confidence DESC
QueryByConfidence(dir, min) ==
    LET files == GetParquetFiles(dir)
    IN  IF files = {} THEN [ok |-> TRUE, rows |-> <<>>]
        ELSE IF \E p \in files : ~Readable(dir[p])
        THEN [ok |-> FALSE, rows |-> <<>>]
        ELSE [ok |-> TRUE,
              rows |-> OrderByConfidenceDesc(SelectSeq2(ScanFiles(dir, files), min))]

(***************************************************************************)
(* query_by_frame_id                                                       *)
(***************************************************************************)
\* with_extension("query.tmp.parquet") on a stored file's path
QueryTempPath(p) == <<p[1], "query.tmp.parquet">>

RECURSIVE Listing(_)
\* the entries get_parquet_files returns, as a sequence in name order
Listing(ps) ==
    IF ps = {} THEN <<>>
    ELSE LET p == CHOOSE q \in ps :
                     \A r \in ps : PathBefore(q, r)
         IN  <<p>> \o Listing(ps \ {p})

\* decrypt_file_to fails on a file that is no complete ciphertext
DecryptFails(f) == ~f.encrypted \/ ~f.complete

\* how a query_by_frame_id call can end besides succeeding: an Io error while
\* decrypting the last listed file, an error of register_parquet, sql or
\* collect, an error of remove_file during the cleanup
QueryOutcomes == {"ok", "decrypt_failed", "execute_failed", "cleanup_failed"}

RECURSIVE PrepareFiles(_, _, _, _)
\* prepare_files_for_query with encryption enabled: decrypt each listed file
\* to its temporary, returning at the first failure
PrepareFiles(dir, files, temps, outcome) ==
    IF files = <<>> THEN [ok |-> TRUE, dir |-> dir, temps |-> temps, failed |-> {}]
    ELSE LET p == Head(files)
         IN  IF DecryptFails(dir[p]) \/ (outcome = "decrypt_failed" /\ Len(files) = 1)
             THEN [ok |-> FALSE, dir |-> dir, temps |-> temps, failed |-> {p}]
             ELSE PrepareFiles(
                      [dir EXCEPT ![QueryTempPath(p)] = CompleteFile(dir[p].rows, FALSE)],
                      Tail(files), Append(temps, QueryTempPath(p)), outcome)

\* prepare_files_for_query
PrepareFilesForQuery(dir, enc, outcome) ==
    IF ~enc
    THEN [ok |-> TRUE, dir |-> dir, temps |-> Listing(GetParquetFiles(dir)), failed |-> {}]
    ELSE PrepareFiles(dir, Listing(GetParquetFiles(dir)), <<>>, outcome)

RECURSIVE RowsOfFiles(_, _)
\* the rows of the files named, in order
RowsOfFiles(dir, files) ==
    IF files = <<>> THEN <<>> ELSE dir[Head(files)].rows \o RowsOfFiles(dir, Tail(files))

RECURSIVE SelectFrame(_, _)
\* WHERE frame_id = '<frame>'
SelectFrame(s, frame) ==
    IF s = <<>> THEN <<>>
    ELSE IF Head(s).frame_id = frame
         THEN <<Head(s)>> \o SelectFrame(Tail(s), frame)
         ELSE SelectFrame(Tail(s), frame)

\* cleanup_query_files: remove every file of the list handed to the query
CleanupQueryFiles(dir, files) ==
    [p \in Paths |-> IF \E i \in 1..Len(files) : files[i] = p THEN NoFile ELSE dir[p]]

\* a query_by_frame_id call that has just returned nothing worth recording
NoFrameQuery == [asked |-> FALSE, ok |-> TRUE, rows |-> <<>>, frame |-> 0,
                 before |-> {}, undecryptable |-> {}]

\* query_by_frame_id: prepare, register and run, clean up, convert
QueryByFrameId(dir, enc, frame, outcome) ==
    LET prep == PrepareFilesForQuery(dir, enc, outcome)
    IN  IF ~prep.ok
        THEN [ok |-> FALSE, rows |-> <<>>, dir |-> prep.dir, failed |-> prep.failed]
        ELSE IF prep.temps = <<>>
        THEN [ok |-> TRUE, rows |-> <<>>, dir |-> prep.dir, failed |-> {}]
        ELSE IF outcome = "execute_failed"
                \/ \E i \in 1..Len(prep.temps) : ~Readable(prep.dir[prep.temps[i]])
        THEN [ok |-> FALSE, rows |-> <<>>, dir |-> prep.dir, failed |-> {}]
        ELSE IF outcome = "cleanup_failed"
        THEN [ok |-> FALSE, rows |-> <<>>, dir |-> prep.dir, failed |-> {}]
        ELSE [ok |-> TRUE,
              rows |-> SelectFrame(RowsOfFiles(prep.dir, prep.temps), frame),
              dir |-> CleanupQueryFiles(prep.dir, prep.temps), failed |-> {}]

(***************************************************************************)
(* Writer actions                                                          *)
(***************************************************************************)
NoCall == [op |-> "none", ok |-> TRUE, flushed |-> FALSE, attempts |-> 0,
           pre_batch |-> <<>>,
           pre_file |-> NoFile, path |-> FlushPath(0), retry_of |-> <<>>]

NoQuery == [asked |-> FALSE, ok |-> TRUE, rows |-> <<>>, min |-> 0]

Call(op, r, pre_batch, pre_dir) ==
    [op |-> op, ok |-> r.ok, flushed |-> r.flushed, attempts |-> r.attempts,
     pre_batch |-> pre_batch,
     pre_file |-> pre_dir[FlushPath(clock)], path |-> FlushPath(clock),
     retry_of |-> IF op = "write" THEN <<>> ELSE w_failed_batch]

\* the batch a failed flush left behind, until a write extends it or a flush
\* persists it
FailedBatch(op, r, pre_batch) ==
    IF r.flushed /\ ~r.ok THEN pre_batch
    ELSE IF op = "write" \/ r.flushed THEN <<>>
    ELSE w_failed_batch

\* the next n rows handed to the writer
NewRows(n) ==
    [i \in 1..n |-> [id |-> Len(w_written) + i,
                     confidence |-> RowConfidence(Len(w_written) + i),
                     frame_id |-> RowFrameId(Len(w_written) + i)]]

\* write_frame_metadata / write_ocr_results / write_events
Write ==
    /\ w_kind \in WriterKinds
    /\ \E n \in 0..MaxSlice :
       \E outcome \in FlushOutcomes(w_kind, encryption_enabled) :
           /\ Len(w_written) + n <= MaxRows
           /\ LET batch == current_batch \o NewRows(n)
                  r == IF Len(batch) >= batch_size
                       THEN FlushBatch(w_kind, encryption_enabled, batch, output_dir,
                                       clock, outcome)
                       ELSE [ok |-> TRUE, flushed |-> FALSE, attempts |-> 0,
                             batch |-> batch, dir |-> output_dir]
              IN  /\ (~r.flushed) => outcome = "ok"
                  /\ current_batch' = r.batch
                  /\ output_dir' = r.dir
                  /\ w_written' = w_written \o NewRows(n)
                  /\ w_last' = Call("write", r, batch, output_dir)
                  /\ w_failed_batch' = FailedBatch("write", r, batch)
                  /\ w_flushes' = IF r.flushed /\ r.ok THEN w_flushes + 1 ELSE w_flushes
           /\ w_query' = NoQuery /\ w_fquery' = NoFrameQuery
           /\ UNCHANGED <<w_kind, batch_size, encryption_enabled, clock>>
    /\ UNCHANGED <<nvars, svars, dvars, uvars, pvars>>

\* flush_batch called by the owner of the writer
Flush ==
    /\ w_kind \in WriterKinds
    /\ \E outcome \in FlushOutcomes(w_kind, encryption_enabled) :
           LET r == FlushBatch(w_kind, encryption_enabled, current_batch, output_dir,
                               clock, outcome)
           IN  /\ (~r.flushed) => outcome = "ok"
               /\ current_batch' = r.batch
               /\ output_dir' = r.dir
               /\ w_last' = Call("flush", r, current_batch, output_dir)
               /\ w_failed_batch' = FailedBatch("flush", r, current_batch)
               /\ w_flushes' = IF r.flushed /\ r.ok THEN w_flushes + 1 ELSE w_flushes
               /\ w_query' = NoQuery /\ w_fquery' = NoFrameQuery
               /\ UNCHANGED <<w_kind, batch_size, encryption_enabled, clock, w_written>>
    /\ UNCHANGED <<nvars, svars, dvars, uvars, pvars>>

\* finalize: flush_batch when the batch is not empty
Finalize ==
    /\ w_kind \in WriterKinds
    /\ \E outcome \in FlushOutcomes(w_kind, encryption_enabled) :
           LET r == IF current_batch # <<>>
                    THEN FlushBatch(w_kind, encryption_enabled, current_batch,
                                    output_dir, clock, outcome)
                    ELSE [ok |-> TRUE, flushed |-> FALSE, attempts |-> 0,
                          batch |-> current_batch,
                          dir |-> output_dir]
           IN  /\ (~r.flushed) => outcome = "ok"
               /\ current_batch' = r.batch
               /\ output_dir' = r.dir
               /\ w_last' = Call("finalize", r, current_batch, output_dir)
               /\ w_failed_batch' = FailedBatch("finalize", r, current_batch)
               /\ w_flushes' = IF r.flushed /\ r.ok THEN w_flushes + 1 ELSE w_flushes
               /\ w_query' = NoQuery /\ w_fquery' = NoFrameQuery
               /\ UNCHANGED <<w_kind, batch_size, encryption_enabled, clock, w_written>>
    /\ UNCHANGED <<nvars, svars, dvars, uvars, pvars>>

SetBatchSize ==
    /\ w_kind \in WriterKinds
    /\ \E n \in 1..MaxBatchSize :
           /\ batch_size # n
           /\ batch_size' = n
           /\ UNCHANGED <<w_kind, current_batch, encryption_enabled, output_dir, clock,
                          w_written, w_failed_batch, w_flushes>>
           /\ w_last' = NoCall
           /\ w_query' = NoQuery /\ w_fquery' = NoFrameQuery
    /\ UNCHANGED <<nvars, svars, dvars, uvars, pvars>>

\* OCRParquetWriter::enable_encryption
EnableEncryption ==
    /\ w_kind \in WriterKinds
    /\ /\ w_kind = "ocr"
       /\ ~encryption_enabled
       /\ encryption_enabled' = TRUE
       /\ UNCHANGED <<w_kind, current_batch, batch_size, output_dir, clock,
                      w_written, w_failed_batch, w_flushes>>
       /\ w_last' = NoCall
       /\ w_query' = NoQuery /\ w_fquery' = NoFrameQuery
    /\ UNCHANGED <<nvars, svars, dvars, uvars, pvars>>

\* OCRParquetWriter::disable_encryption
DisableEncryption ==
    /\ w_kind \in WriterKinds
    /\ /\ w_kind = "ocr"
       /\ encryption_enabled
       /\ encryption_enabled' = FALSE
       /\ UNCHANGED <<w_kind, current_batch, batch_size, output_dir, clock,
                      w_written, w_failed_batch, w_flushes>>
       /\ w_last' = NoCall
       /\ w_query' = NoQuery /\ w_fquery' = NoFrameQuery
    /\ UNCHANGED <<nvars, svars, dvars, uvars, pvars>>

\* query_by_confidence(min) of the OCR and event writers
Query ==
    /\ w_kind \in WriterKinds
    /\ \E min \in Thresholds :
           /\ w_kind \in {"ocr", "events"}
           /\ LET q == QueryByConfidence(output_dir, min)
              IN  w_query' = [asked |-> TRUE, ok |-> q.ok, rows |-> q.rows, min |-> min]
           /\ w_query' # w_query
           /\ w_fquery' = NoFrameQuery
           /\ UNCHANGED <<w_kind, current_batch, batch_size, encryption_enabled,
                          output_dir, clock, w_written, w_failed_batch, w_flushes>>
           /\ w_last' = NoCall
    /\ UNCHANGED <<nvars, svars, dvars, uvars, pvars>>

\* query_by_frame_id(frame) of the OCR writer
QueryFrame ==
    /\ w_kind = "ocr"
    /\ \E frame \in FrameIds, outcome \in QueryOutcomes :
       \E q \in {QueryByFrameId(output_dir, encryption_enabled, frame, outcome)} :
           /\ outcome = "decrypt_failed" => (encryption_enabled /\ q.failed # {})
           /\ outcome \in {"execute_failed", "cleanup_failed"}
                 => GetParquetFiles(output_dir) # {}
           /\ output_dir' = q.dir
           /\ w_fquery' = [asked |-> TRUE, ok |-> q.ok, rows |-> q.rows, frame |-> frame,
                           before |-> GetParquetFiles(output_dir),
                           undecryptable |-> q.failed]
           /\ w_fquery' # w_fquery \/ output_dir' # output_dir
           /\ w_query' = NoQuery
           /\ w_last' = NoCall
           /\ UNCHANGED <<w_kind, current_batch, batch_size, encryption_enabled,
                          clock, w_written, w_failed_batch, w_flushes>>
    /\ UNCHANGED <<nvars, svars, dvars, uvars, pvars>>

\* the wall clock advances
Tick ==
    /\ w_kind \in WriterKinds
    /\ /\ clock < MaxClock
       /\ clock' = clock + 1
       /\ UNCHANGED <<w_kind, current_batch, batch_size, encryption_enabled,
                      output_dir, w_written, w_failed_batch, w_flushes>>
       /\ w_last' = NoCall
       /\ w_query' = NoQuery /\ w_fquery' = NoFrameQuery
    /\ UNCHANGED <<nvars, svars, dvars, uvars, pvars>>

\* ParquetWriter::new / OCRParquetWriter::new / EventParquetWriter::new
New ==
    \E kind \in WriterKinds :
        /\ w_kind = "none"
        /\ w_kind' = kind
        /\ batch_size' = DefaultBatchSize(kind)
        /\ UNCHANGED <<current_batch, encryption_enabled, output_dir, clock, w_written,
                       w_last, w_failed_batch, w_flushes, w_query, w_fquery>>
        /\ UNCHANGED <<nvars, svars, dvars, uvars, pvars>>

WNext ==
    \/ New
    \/ Write
    \/ Flush
    \/ Finalize
    \/ SetBatchSize
    \/ EnableEncryption
    \/ DisableEncryption
    \/ Query
    \/ Tick

\* the writer with its query_by_frame_id as well
QNext ==
    \/ WNext
    \/ QueryFrame

(***************************************************************************)
(* Navigation detector                                                     *)
(***************************************************************************)
Apps == {"Editor", "Browser"}
Browsers == {"Safari", "Google Chrome"}
\* cursor x coordinates the probe reports (y is 0 throughout)
CursorXs == {0, 20}

\* results of the osascript window probe (get_current_window_state)
WindowProbes == {[ok |-> FALSE, app |-> "none"]} \cup {[ok |-> TRUE, app |-> a] : a \in Apps}
\* results of get_current_tab_state: Safari answered, else Chrome answered,
\* else neither did
TabProbes == {"none"} \cup Browsers
\* results of get_current_cursor_position
CursorProbes == {[ok |-> FALSE, x |-> 0]} \cup {[ok |-> TRUE, x |-> x] : x \in CursorXs}

NoWindow == [some |-> FALSE, app_name |-> "none", timestamp |-> 0]
NoTab == [some |-> FALSE, app_name |-> "none", timestamp |-> 0]
NoPosition == [some |-> FALSE, x |-> 0, timestamp |-> 0]

Ms(ticks) == ticks * TickMs

\* a DetectedEvent of type Navigation; confidence in thousandths
NavigationEvent(target, ts, frame, conf) ==
    [event_type |-> "Navigation", target |-> target, timestamp |-> ts,
     confidence |-> conf, evidence_frames |-> <<frame>>]

\* detect_window_changes: probe, compare with the previous state, emit, store
DetectWindowChanges(prev, probe, now, timestamp, frame) ==
    IF ~probe.ok
    THEN [ok |-> FALSE, events |-> <<>>, state |-> prev]
    ELSE LET cur == [some |-> TRUE, app_name |-> probe.app, timestamp |-> now]
             changed == /\ prev.some
                        /\ cur # prev
                        /\ Ms(timestamp - prev.timestamp) >= MinDetectionIntervalMs
         IN  [ok |-> TRUE,
              events |-> IF changed
                         THEN <<NavigationEvent("window", timestamp, frame,
                                                NavMinConfidence)>>
                         ELSE <<>>,
              state |-> cur]

\* detect_tab_changes; get_current_tab_state never returns Err, it answers
\* None when no browser replies
DetectTabChanges(prev, probe, now, timestamp, frame) ==
    IF probe = "none"
    THEN [ok |-> TRUE, events |-> <<>>, state |-> prev]
    ELSE LET cur == [some |-> TRUE, app_name |-> probe, timestamp |-> now]
             changed == /\ prev.some
                        /\ cur # prev
                        /\ Ms(timestamp - prev.timestamp) >= MinDetectionIntervalMs
         IN  [ok |-> TRUE,
              events |-> IF changed
                         THEN <<NavigationEvent("tab", timestamp, frame,
                                                (NavMinConfidence * 9) \div 10)>>
                         ELSE <<>>,
              state |-> cur]

\* detect_focus_changes: get_current_focus_state probes the window again
DetectFocusChanges(history, probe, now, timestamp, frame) ==
    IF ~probe.ok
    THEN [ok |-> FALSE, events |-> <<>>, history |-> history]
    ELSE LET empty == history = <<>>
             last == history[Len(history)]
             cur == [to_app |-> probe.app, timestamp |-> now,
                     confidence |-> NavMinConfidence]
             is_new_focus == empty \/ last.to_app # cur.to_app
             should_record ==
                 empty \/ Ms(timestamp - last.timestamp) >= MinDetectionIntervalMs
             pushed == Append(history, cur)
         IN  IF is_new_focus /\ should_record
             THEN [ok |-> TRUE,
                   events |-> <<NavigationEvent("focus", timestamp, frame,
                                                cur.confidence)>>,
                   history |-> IF Len(pushed) > MaxFocusHistory
                               THEN Tail(pushed) ELSE pushed]
             ELSE [ok |-> TRUE, events |-> <<>>, history |-> history]

\* detect_navigation_events: each detector's Err is dropped by `if let Ok`
DetectNavigationEvents(pw, pt, fh, wprobe, tprobe, fprobe, now, timestamp, frame) ==
    LET w == DetectWindowChanges(pw, wprobe, now, timestamp, frame)
        t == DetectTabChanges(pt, tprobe, now, timestamp, frame)
        f == DetectFocusChanges(fh, fprobe, now, timestamp, frame)
    IN  [ok |-> TRUE,
         events |-> w.events \o t.events \o f.events,
         window |-> w.state, tab |-> t.state, focus |-> f.history]

(***************************************************************************)
(* Cursor tracker                                                          *)
(***************************************************************************)
\* calculate_distance, squared (y is 0)
DistanceSq(p1, p2) == (p2.x - p1.x) * (p2.x - p1.x)

RECURSIVE DropFront(_, _)
\* pop_front until at most n entries remain
DropFront(s, n) == IF Len(s) > n THEN DropFront(Tail(s), n) ELSE s

\* track_cursor_position
TrackCursorPosition(last, history, probe, now, timestamp, frame) ==
    IF ~probe.ok
    THEN [ok |-> FALSE, events |-> <<>>, last |-> last, history |-> history]
    ELSE LET cur == [some |-> TRUE, x |-> probe.x, timestamp |-> now]
             moved == /\ last.some
                      /\ DistanceSq(last, cur) >= MinMovementDistance * MinMovementDistance
         IN  [ok |-> TRUE,
              events |-> IF moved
                         THEN <<NavigationEvent("cursor_movement", timestamp, frame,
                                                CursorMinConfidence)>>
                         ELSE <<>>,
              last |-> cur,
              history |-> DropFront(Append(history, cur), MaxPositionHistory)]

\* detect_click_pattern: the newest five positions lie within 5 px of the
\* newest one and the seventh newest lies more than 10 px away
DetectClickPattern(history) ==
    LET n == Len(history)
        center == history[n]
        recent == {history[i] : i \in (IF n > 5 THEN n - 4 ELSE 1)..n}
    IN  IF n < 3 THEN NoPosition
        ELSE IF /\ \A p \in recent : DistanceSq(center, p) < 25
                /\ n >= 7
                /\ DistanceSq(history[n - 6], center) > 100
        THEN center
        ELSE NoPosition

\* detect_click_events
DetectClickEvents(history, clicks, timestamp, frame) ==
    LET click == DetectClickPattern(history)
    IN  IF click.some
        THEN [events |-> <<NavigationEvent("click", timestamp, frame,
                                           (CursorMinConfidence * 7) \div 10)>>,
              clicks |-> DropFront(Append(clicks, click), MaxPositionHistory \div 10)]
        ELSE [events |-> <<>>, clicks |-> clicks]

\* track_cursor_events: each step's Err is dropped by `if let Ok`.  The
\* trail analysis needs five positions in the history and is left out.
TrackCursorEvents(last, history, clicks, probe, now, timestamp, frame) ==
    LET p == TrackCursorPosition(last, history, probe, now, timestamp, frame)
        c == DetectClickEvents(p.history, clicks, timestamp, frame)
    IN  [ok |-> TRUE,
         events |-> p.events \o c.events,
         last |-> p.last, history |-> p.history, clicks |-> c.clicks]

(***************************************************************************)
(* Event correlator                                                        *)
(***************************************************************************)
CorrelationEvent(type, ts, conf, frame) ==
    [event_type |-> type, timestamp |-> ts, confidence |-> conf, frame_id |-> frame]

\* what add_event leaves when it never evicts; AddEvent is compared with it
AddEventUnbounded(buffer, e) == Append(buffer, e)

\* add_event: push_back, then pop_front while over capacity
AddEvent(buffer, e) == DropFront(Append(buffer, e), MaxBufferSize)

RECURSIVE AddEvents(_, _)
AddEvents(buffer, es) ==
    IF es = <<>> THEN buffer ELSE AddEvents(AddEvent(buffer, Head(es)), Tail(es))

\* clean_old_events: pop the front while it is older than the window
CleanOldEvents(buffer, now) ==
    LET Old(i) == Ms(buffer[i].timestamp) < Ms(now) - MaxCorrelationWindowMs
        \* the pops made: the loop stops at the first front that is absent or
        \* not older than the window
        popped == CHOOSE k \in 0..Len(buffer) :
                      /\ k = Len(buffer) \/ ~Old(k + 1)
                      /\ \A i \in 1..k : Old(i)
    IN  SubSeq(buffer, popped + 1, Len(buffer))

\* evaluate_temporal_correlation's table of meaningful pairs
TemporalRule(t1, t2) ==
    CASE t1 = "CursorClick" /\ t2 \in {"ScreenChange", "WindowChange", "TabChange"}
              -> "CursorToScreenChange"
      [] t1 = "WindowChange" /\ t2 = "CursorMovement" -> "ScreenToCursorResponse"
      [] t1 = "ErrorDisplay" /\ t2 = "CursorClick" -> "ErrorRecovery"
      [] OTHER -> "none"

Abs(n) == IF n < 0 THEN -n ELSE n
Clamp(n) == IF n < 0 THEN 0 ELSE IF n > 1000 THEN 1000 ELSE n

\* analyze_temporal_correlations: every pair i < j of the buffer within the
\* window that the table names and whose confidence reaches the minimum
TemporalCorrelations(buffer) ==
    {<<i, j>> \in (1..Len(buffer)) \X (1..Len(buffer)) :
        /\ i < j
        /\ LET dt == Abs(Ms(buffer[j].timestamp - buffer[i].timestamp))
               tc == 1000 - (1000 * dt) \div MaxCorrelationWindowMs
               base == (buffer[i].confidence + buffer[j].confidence) \div 2
           IN  /\ dt <= MaxCorrelationWindowMs
               /\ TemporalRule(buffer[i].event_type, buffer[j].event_type) # "none"
               /\ Clamp((600 * tc + 400 * base) \div 1000) >= MinCorrelationConfidence}

\* evaluate_causal_correlation's table: the causal strength in thousandths,
\* 0 for a pair it does not name
CausalStrength(t1, t2) ==
    CASE t1 = "CursorClick" /\ t2 = "WindowChange" -> 900
      [] t1 = "CursorClick" /\ t2 = "TabChange" -> 850
      [] t1 = "CursorClick" /\ t2 = "FieldChange" -> 800
      [] t1 = "ErrorDisplay" /\ t2 = "CursorMovement" -> 700
      [] t1 = "ModalAppearance" /\ t2 = "CursorClick" -> 750
      [] OTHER -> 0

\* analyze_causal_correlations: adjacent pairs of the buffer
CausalCorrelations(buffer) ==
    {i \in 1..(Len(buffer) - 1) :
        LET dt == Abs(Ms(buffer[i + 1].timestamp - buffer[i].timestamp))
            strength == CausalStrength(buffer[i].event_type, buffer[i + 1].event_type)
            tf == 1000 - (1000 * dt) \div MaxCorrelationWindowMs
            base == (buffer[i].confidence + buffer[i + 1].confidence) \div 2
        IN  /\ strength > 0
            /\ dt <= MaxCorrelationWindowMs
            /\ Clamp((500 * strength + 300 * tf + 200 * base) \div 1000)
                  >= MinCorrelationConfidence}

\* analyze_correlations: evict, then report; it has no Err path.  The
\* spatial pass pairs a cursor event with a FieldChange event, which no frame
\* of this service produces.
AnalyzeCorrelations(buffer, now) ==
    LET cleaned == CleanOldEvents(buffer, now)
    IN  [ok |-> TRUE, buffer |-> cleaned,
         count |-> IF Len(cleaned) < 2 THEN 0
                   ELSE Cardinality(TemporalCorrelations(cleaned))
                        + Cardinality(CausalCorrelations(cleaned))]

\* add_detected_event's mapping of event types
DetectedToCorrelationType(t) ==
    CASE t = "FieldChange" -> "FieldChange"
      [] t = "ErrorDisplay" -> "ErrorDisplay"
      [] t = "ModalAppearance" -> "ModalAppearance"
      [] OTHER -> "ScreenChange"

(***************************************************************************)
(* NavigationIntegrationService::process_frame                             *)
(***************************************************************************)
\* what step 1 hands to the correlator: the stored window, the stored tab and
\* the whole focus history
NavigationFeed(window, tab, focus, frame) ==
    (IF window.some
     THEN <<CorrelationEvent("WindowChange", window.timestamp, 900, frame)>> ELSE <<>>)
    \o (IF tab.some
        THEN <<CorrelationEvent("TabChange", tab.timestamp, 850, frame)>> ELSE <<>>)
    \o [i \in 1..Len(focus) |->
           CorrelationEvent("FocusChange", focus[i].timestamp, focus[i].confidence, frame)]

\* what step 2 hands to the correlator: the stored position and the whole
\* click history
CursorFeed(last, clicks, frame) ==
    (IF last.some
     THEN <<CorrelationEvent("CursorMovement", last.timestamp, 900, frame)>> ELSE <<>>)
    \o [i \in 1..Len(clicks) |->
           CorrelationEvent("CursorClick", clicks[i].timestamp,
                            (CursorMinConfidence * 7) \div 10, frame)]

\* step 3: every detected event of the frame
DetectedFeed(events) ==
    [i \in 1..Len(events) |->
        CorrelationEvent(DetectedToCorrelationType(events[i].event_type),
                         events[i].timestamp, events[i].confidence,
                         events[i].evidence_frames[1])]

\* process_frame as it would be if a probe's failure were propagated with `?`
ProcessFramePropagating(wprobe, tprobe, fprobe, cprobe, timestamp, frame, flush) ==
    LET nav == DetectNavigationEvents(previous_window_state, previous_tab_state,
                                      focus_history, wprobe, tprobe, fprobe,
                                      nav_clock, timestamp, frame)
        cur == TrackCursorEvents(last_position, position_history, click_history,
                                 cprobe, nav_clock, timestamp, frame)
        nav_feed == IF nav.ok THEN NavigationFeed(nav.window, nav.tab, nav.focus, frame)
                    ELSE <<>>
        cur_feed == IF cur.ok THEN CursorFeed(cur.last, cur.clicks, frame) ELSE <<>>
        all_events == (IF nav.ok THEN nav.events ELSE <<>>)
                      \o (IF cur.ok THEN cur.events ELSE <<>>)
        fed == nav_feed \o cur_feed \o DetectedFeed(all_events)
        corr == AnalyzeCorrelations(AddEvents(event_buffer, fed), timestamp)
        batch == event_writer_batch \o all_events
        wr == IF all_events # <<>> /\ Len(batch) >= EventsBatchSize
              THEN FlushBatch("events", FALSE, batch, [p \in Paths |-> NoFile], 0, flush)
              ELSE [ok |-> TRUE, flushed |-> FALSE, batch |-> batch,
                    dir |-> [p \in Paths |-> NoFile]]
        errors == (IF nav.ok THEN 0 ELSE 1) + (IF cur.ok THEN 0 ELSE 1)
                  + (IF corr.ok THEN 0 ELSE 1) + (IF wr.ok THEN 0 ELSE 1)
    IN  [ok |-> wprobe.ok /\ tprobe # "none" /\ fprobe.ok /\ cprobe.ok,
         detected_events |-> all_events,
         fed |-> fed,
         window |-> nav.window, tab |-> nav.tab, focus |-> nav.focus,
         last |-> cur.last, history |-> cur.history, clicks |-> cur.clicks,
         buffer |-> corr.buffer,
         batch |-> wr.batch,
         metrics |-> [navigation_events |->
                          metrics.navigation_events
                          + (IF nav.ok THEN Len(nav.events) ELSE 0),
                      cursor_events |->
                          metrics.cursor_events
                          + (IF cur.ok THEN Len(cur.events) ELSE 0),
                      correlation_events |-> metrics.correlation_events + corr.count,
                      error_count |-> metrics.error_count + errors,
                      total_events_detected |->
                          metrics.total_events_detected + Len(all_events)]]

\* process_frame on the service state; flush tells how a size-triggered flush
\* of the event writer ends
ProcessFrame(wprobe, tprobe, fprobe, cprobe, timestamp, frame, flush) ==
    LET nav == DetectNavigationEvents(previous_window_state, previous_tab_state,
                                      focus_history, wprobe, tprobe, fprobe,
                                      nav_clock, timestamp, frame)
        cur == TrackCursorEvents(last_position, position_history, click_history,
                                 cprobe, nav_clock, timestamp, frame)
        nav_feed == IF nav.ok THEN NavigationFeed(nav.window, nav.tab, nav.focus, frame)
                    ELSE <<>>
        cur_feed == IF cur.ok THEN CursorFeed(cur.last, cur.clicks, frame) ELSE <<>>
        all_events == (IF nav.ok THEN nav.events ELSE <<>>)
                      \o (IF cur.ok THEN cur.events ELSE <<>>)
        fed == nav_feed \o cur_feed \o DetectedFeed(all_events)
        corr == AnalyzeCorrelations(AddEvents(event_buffer, fed), timestamp)
        batch == event_writer_batch \o all_events
        wr == IF all_events # <<>> /\ Len(batch) >= EventsBatchSize
              THEN FlushBatch("events", FALSE, batch, [p \in Paths |-> NoFile], 0, flush)
              ELSE [ok |-> TRUE, flushed |-> FALSE, batch |-> batch,
                    dir |-> [p \in Paths |-> NoFile]]
        errors == (IF nav.ok THEN 0 ELSE 1) + (IF cur.ok THEN 0 ELSE 1)
                  + (IF corr.ok THEN 0 ELSE 1) + (IF wr.ok THEN 0 ELSE 1)
    IN  [ok |-> TRUE,
         detected_events |-> all_events,
         fed |-> fed,
         window |-> nav.window, tab |-> nav.tab, focus |-> nav.focus,
         last |-> cur.last, history |-> cur.history, clicks |-> cur.clicks,
         buffer |-> corr.buffer,
         batch |-> wr.batch,
         metrics |-> [navigation_events |->
                          metrics.navigation_events
                          + (IF nav.ok THEN Len(nav.events) ELSE 0),
                      cursor_events |->
                          metrics.cursor_events
                          + (IF cur.ok THEN Len(cur.events) ELSE 0),
                      correlation_events |-> metrics.correlation_events + corr.count,
                      error_count |-> metrics.error_count + errors,
                      total_events_detected |->
                          metrics.total_events_detected + Len(all_events)]]

\* detect_navigation_events yields at most three events for a frame and
\* track_cursor_events at most two besides the trails
MaxEventsPerFrame == 5

NoFrame == [called |-> FALSE, ok |-> TRUE, frame |-> 0,
            window_failed |-> FALSE, tab_failed |-> FALSE, focus_failed |-> FALSE,
            cursor_failed |-> FALSE, targets |-> <<>>, fed |-> <<>>,
            errors_before |-> 0, window_before |-> NoWindow, tab_before |-> NoTab]

\* one iteration of the frame loop (process_frame_batch, or a caller that
\* stops at the first Err): process_frame on the next frame
ProcessNextFrame ==
    /\ \E wprobe \in WindowProbes, tprobe \in TabProbes, focus_ok \in BOOLEAN,
          cprobe \in CursorProbes :
       \E flush \in (IF Len(event_writer_batch) + MaxEventsPerFrame < EventsBatchSize
                     THEN {"ok"} ELSE FlushOutcomes("events", FALSE)) :
           /\ ~nav_halted
           /\ nav_frames < MaxFrames
           /\ LET frame == nav_frames + 1
                  \* the focus probe asks for the frontmost window a second time
                  fprobe == IF ~focus_ok THEN [ok |-> FALSE, app |-> "none"]
                            ELSE IF wprobe.ok THEN wprobe
                            ELSE [ok |-> TRUE, app |-> "Editor"]
              IN  \E r \in {ProcessFrame(wprobe, tprobe, fprobe, cprobe, nav_clock, frame,
                                          flush)} :
                  /\ nav_halted' = ~r.ok
                  /\ nav_frames' = frame
                  /\ nav_last' = [called |-> TRUE, ok |-> r.ok, frame |-> frame,
                                  window_failed |-> ~wprobe.ok,
                                  tab_failed |-> tprobe = "none",
                                  focus_failed |-> ~fprobe.ok,
                                  cursor_failed |-> ~cprobe.ok,
                                  targets |-> [i \in 1..Len(r.detected_events) |->
                                                  r.detected_events[i].target],
                                  fed |-> [i \in 1..Len(r.fed) |-> r.fed[i].event_type],
                                  errors_before |-> metrics.error_count,
                                  window_before |-> previous_window_state,
                                  tab_before |-> previous_tab_state]
                  /\ nav_failed_frames' =
                        IF ~wprobe.ok \/ tprobe = "none" \/ ~fprobe.ok \/ ~cprobe.ok
                        THEN nav_failed_frames \cup {frame} ELSE nav_failed_frames
                  /\ IF r.ok
                     THEN /\ previous_window_state' = r.window
                          /\ previous_tab_state' = r.tab
                          /\ focus_history' = r.focus
                          /\ last_position' = r.last
                          /\ position_history' = r.history
                          /\ click_history' = r.clicks
                          /\ event_buffer' = r.buffer
                          /\ event_writer_batch' = r.batch
                          /\ metrics' = r.metrics
                     ELSE UNCHANGED <<previous_window_state, previous_tab_state,
                                      focus_history, last_position, position_history,
                                      click_history, event_buffer, event_writer_batch,
                                      metrics>>
           /\ UNCHANGED nav_clock
    /\ UNCHANGED <<wvars, svars, dvars, uvars, pvars>>

\* the wall clock of the service advances by one tick
NavTick ==
    /\ /\ nav_clock < MaxNavClock
       /\ nav_clock' = nav_clock + 1
       /\ nav_last' = NoFrame
       /\ UNCHANGED <<previous_window_state, previous_tab_state, focus_history,
                      last_position, position_history, click_history, event_buffer,
                      event_writer_batch, metrics, nav_frames, nav_halted,
                      nav_failed_frames>>
    /\ UNCHANGED <<wvars, svars, dvars, uvars, pvars>>

NNext ==
    \/ ProcessNextFrame
    \/ NavTick

(***************************************************************************)
(* main, IndexerService and FileWatcher                                    *)
(***************************************************************************)
\* files that appear in the watch directory: a good segment, a segment that
\* cannot be opened, one without a video stream, one deleted after it was
\* sent, one still being written, an empty one, one gone before it is looked
\* at, one gone between the two looks, and a file that is no video
FileKinds ==
    {"good", "unopenable", "no_video_stream", "deleted", "growing", "empty", "missing",
     "vanishing", "text"}

\* is_video_file: the extension is one of the video extensions
IsVideoFile(f) == f # "text"

\* what is_file_complete finds of a file: whether path.exists(), and the two
\* results of std::fs::metadata(path), 500 ms apart, as a length in bytes
FileMetadata(f) ==
    CASE f = "growing"   -> [exists |-> TRUE, initial |-> [ok |-> TRUE, len |-> 4096],
                             final |-> [ok |-> TRUE, len |-> 8192]]
      [] f = "empty"     -> [exists |-> TRUE, initial |-> [ok |-> TRUE, len |-> 0],
                             final |-> [ok |-> TRUE, len |-> 0]]
      [] f = "missing"   -> [exists |-> FALSE, initial |-> [ok |-> FALSE, len |-> 0],
                             final |-> [ok |-> FALSE, len |-> 0]]
      [] f = "vanishing" -> [exists |-> TRUE, initial |-> [ok |-> TRUE, len |-> 4096],
                             final |-> [ok |-> FALSE, len |-> 0]]
      [] OTHER           -> [exists |-> TRUE, initial |-> [ok |-> TRUE, len |-> 4096],
                             final |-> [ok |-> TRUE, len |-> 4096]]

\* is_file_complete without the test for an empty file; IsFileComplete is
\* compared with it
IsFileCompleteAllowingEmpty(f) ==
    LET metadata == FileMetadata(f)
    IN  IF ~metadata.exists THEN FALSE
        ELSE IF ~metadata.initial.ok THEN FALSE
        ELSE IF ~metadata.final.ok THEN FALSE
        ELSE metadata.final.len = metadata.initial.len

\* is_file_complete: the size is positive and the same 500 ms later
IsFileComplete(f) ==
    LET metadata == FileMetadata(f)
    IN  IF ~metadata.exists THEN FALSE
        ELSE IF ~metadata.initial.ok THEN FALSE
        ELSE IF ~metadata.final.ok THEN FALSE
        ELSE metadata.final.len > 0 /\ metadata.final.len = metadata.initial.len

\* KeyframeExtractor::extract_keyframes, as far as its result goes
ExtractKeyframes(f) ==
    CASE f = "deleted" -> [ok |-> FALSE, error |-> "CorruptedVideo"]
      [] f = "unopenable" -> [ok |-> FALSE, error |-> "CorruptedVideo"]
      [] f = "no_video_stream" -> [ok |-> FALSE, error |-> "UnsupportedFormat"]
      [] OTHER -> [ok |-> TRUE, error |-> "none"]

\* process_video_segment: Err when the extraction fails, else the segment's
\* rows are handed to the CSV writer
ProcessVideoSegment(f, batch) ==
    LET e == ExtractKeyframes(f)
    IN  IF e.ok THEN [ok |-> TRUE, batch |-> Append(batch, f)]
        ELSE [ok |-> FALSE, batch |-> batch]

\* the process ends with exit code 1: main returns Err or calls exit(1)
ExitWithError ==
    /\ svc_pc' = "exited"
    /\ svc_exit' = "code_1"

\* main: parse the command line, build the service, enter start_watching
Main ==
    /\ \E new_ok \in BOOLEAN, dir \in {"absent", "missing", "dir"} :
           /\ svc_pc = "main"
           /\ watch_dir' = dir
           /\ IF ~new_ok \/ dir = "absent"
              THEN ExitWithError
              ELSE /\ svc_pc' = "start_watching"
                   /\ UNCHANGED svc_exit
           /\ UNCHANGED <<fs_events, svc_channel, svc_enqueued, svc_processed,
                          svc_logged, csv_batch, svc_finalized, svc_shutdown>>
    /\ UNCHANGED <<wvars, nvars, dvars, uvars, pvars, keep_alive_phase>>

\* start_watching up to the call of FileWatcher::start: FileWatcher::new
\* fails when the directory does not exist
StartWatching ==
    /\ /\ svc_pc = "start_watching"
       /\ IF watch_dir = "missing"
          THEN ExitWithError
          ELSE /\ svc_pc' = "watcher_start"
               /\ UNCHANGED svc_exit
       /\ UNCHANGED <<watch_dir, fs_events, svc_channel, svc_enqueued, svc_processed,
                      svc_logged, csv_batch, svc_finalized, svc_shutdown>>
    /\ UNCHANGED <<wvars, nvars, dvars, uvars, pvars, keep_alive_phase>>

\* FileWatcher::start: the only returns are the two `?` on the notify calls;
\* otherwise it spawns the event task and stays in its keep-alive loop
WatcherStart ==
    /\ \E notify_ok \in BOOLEAN :
           /\ svc_pc = "watcher_start"
           /\ IF notify_ok
              THEN /\ svc_pc' = "keep_alive"
                   /\ UNCHANGED svc_exit
              ELSE ExitWithError
           /\ UNCHANGED <<watch_dir, fs_events, svc_channel, svc_enqueued, svc_processed,
                          svc_logged, csv_batch, svc_finalized, svc_shutdown>>
    /\ UNCHANGED <<wvars, nvars, dvars, uvars, pvars, keep_alive_phase>>

\* one iteration of `loop { sleep(1 s) }`, the end of FileWatcher::start: the
\* loop has no exit
KeepAlive ==
    /\ svc_pc = "keep_alive"
    /\ keep_alive_phase' = 1 - keep_alive_phase
    /\ UNCHANGED <<svc_pc, svc_exit, watch_dir, fs_events, svc_channel, svc_enqueued,
                   svc_processed, svc_logged, csv_batch, svc_finalized, svc_shutdown>>
    /\ UNCHANGED <<wvars, nvars, dvars, uvars, pvars>>

\* notify reports a created or modified file
FsEvent ==
    /\ \E f \in FileKinds :
           /\ svc_pc = "keep_alive"
           /\ Len(fs_events) + Len(svc_enqueued) < MaxSegments
           /\ fs_events' = Append(fs_events, f)
           /\ UNCHANGED <<svc_pc, svc_exit, watch_dir, svc_channel, svc_enqueued,
                          svc_processed, svc_logged, csv_batch, svc_finalized,
                          svc_shutdown>>
    /\ UNCHANGED <<wvars, nvars, dvars, uvars, pvars, keep_alive_phase>>

\* the spawned task: handle_file_event on the next notified file
HandleFileEvent ==
    /\ /\ svc_pc = "keep_alive"
       /\ fs_events # <<>>
       /\ LET f == Head(fs_events)
          IN  IF IsVideoFile(f) /\ IsFileComplete(f)
              THEN /\ Len(svc_channel) < ChannelCapacity
                   /\ svc_channel' = Append(svc_channel, f)
                   /\ svc_enqueued' = Append(svc_enqueued, f)
              ELSE UNCHANGED <<svc_channel, svc_enqueued>>
       /\ fs_events' = Tail(fs_events)
       /\ UNCHANGED <<svc_pc, svc_exit, watch_dir, svc_processed, svc_logged,
                      csv_batch, svc_finalized, svc_shutdown>>
    /\ UNCHANGED <<wvars, nvars, dvars, uvars, pvars, keep_alive_phase>>

\* the receive loop of start_watching.  It follows `file_watcher.start().await?`
\* and so runs only once FileWatcher::start has returned Ok, which no path
\* through FileWatcher::start does: the loop is no step of SNext.
ReceiveSegment ==
    /\ /\ svc_pc = "receiving"
       /\ svc_channel # <<>>
       /\ LET at == Len(svc_enqueued) - Len(svc_channel) + 1
              r == ProcessVideoSegment(Head(svc_channel), csv_batch)
          IN  /\ csv_batch' = r.batch
              /\ svc_processed' = IF r.ok THEN svc_processed \cup {at} ELSE svc_processed
              /\ svc_logged' = IF r.ok THEN svc_logged ELSE svc_logged \cup {at}
       /\ svc_channel' = Tail(svc_channel)
       /\ UNCHANGED <<svc_pc, svc_exit, watch_dir, fs_events, svc_enqueued,
                      svc_finalized, svc_shutdown>>
    /\ UNCHANGED <<wvars, nvars, dvars, uvars, pvars, keep_alive_phase>>

\* a shutdown request (SIGINT or SIGTERM).  main installs no handler, so the
\* process ends at once; no finalize of any writer runs.
Shutdown ==
    /\ /\ svc_pc # "exited"
       /\ svc_pc' = "exited"
       /\ svc_exit' = "signal"
       /\ svc_shutdown' = TRUE
       /\ UNCHANGED <<watch_dir, fs_events, svc_channel, svc_enqueued, svc_processed,
                      svc_logged, csv_batch, svc_finalized>>
    /\ UNCHANGED <<wvars, nvars, dvars, uvars, pvars, keep_alive_phase>>

SNext ==
    \/ Main
    \/ StartWatching
    \/ WatcherStart
    \/ KeepAlive
    \/ FsEvent
    \/ HandleFileEvent
    \/ Shutdown

(***************************************************************************)
(* Event detection: text and geometry                                      *)
(*                                                                         *)
(* A text is a sequence of characters.  Confidences, similarities and IoU  *)
(* are in thousandths; coordinates are in half pixels.                     *)
(***************************************************************************)
\* `let x = value;` followed by Body(x): the value is computed once, however
\* often the body reads it
Bind(value, Body(_)) == CHOOSE result \in {Body(x) : x \in {value}} : TRUE

\* str::to_lowercase over the alphabet of the texts used here
ToLowercase(text) ==
    [i \in 1..Len(text) |->
        CASE text[i] = "O" -> "o"
          [] text[i] = "K" -> "k"
          [] OTHER -> text[i]]

\* str::contains
Contains(text, pattern) ==
    \E i \in 0..(Len(text) - Len(pattern)) :
        SubSeq(text, i + 1, i + Len(pattern)) = pattern

\* text_lower.contains(p) for some p of patterns; a (?i) regex that is an
\* alternation of literals
ContainsAny(text, patterns) ==
    \E text_lower \in {ToLowercase(text)} :
        \E p \in patterns : Contains(text_lower, p)

\* levenshtein_distance: the matrix is filled row by row; a row holds the
\* distances from a prefix of s1 to every prefix of s2
LevenshteinDistance(s1, s2) ==
    LET len2 == Len(s2)
        RECURSIVE Fill(_, _, _, _)
        Fill(previous_row, i, j, row) ==
            IF j > len2 THEN row
            ELSE \* row[j] is the cell to the left, previous_row[j + 1] the cell above
                 LET cost == IF s1[i] = s2[j] THEN 0 ELSE 1
                     deletion == previous_row[j + 1] + 1
                     insertion == row[j] + 1
                     substitution == previous_row[j] + cost
                     least == IF deletion < insertion THEN deletion ELSE insertion
                 IN  Fill(previous_row, i, j + 1,
                          Append(row, IF substitution < least THEN substitution
                                      ELSE least))
        RECURSIVE Rows(_, _)
        Rows(i, previous_row) ==
            IF i > Len(s1) THEN previous_row[len2 + 1]
            ELSE Rows(i + 1, Fill(previous_row, i, 1, <<i>>))
    IN  IF Len(s1) = 0 THEN len2
        ELSE IF len2 = 0 THEN Len(s1)
        ELSE Rows(1, [j \in 1..(len2 + 1) |-> j - 1])

CalculateTextSimilarity(text1, text2) ==
    IF text1 = text2 THEN 1000
    ELSE IF text1 = <<>> \/ text2 = <<>> THEN 0
    ELSE LET max_len == IF Len(text1) > Len(text2) THEN Len(text1) ELSE Len(text2)
         IN  1000 - (LevenshteinDistance(text1, text2) * 1000) \div max_len

\* BoundingBox::iou
Iou(a, b) ==
    IF \/ a.x + a.width < b.x \/ b.x + b.width < a.x
       \/ a.y + a.height < b.y \/ b.y + b.height < a.y
    THEN 0
    ELSE LET Max(p, q) == IF p > q THEN p ELSE q
             Min(p, q) == IF p < q THEN p ELSE q
             intersection_x == Max(a.x, b.x)
             intersection_y == Max(a.y, b.y)
             intersection_width == Min(a.x + a.width, b.x + b.width) - intersection_x
             intersection_height == Min(a.y + a.height, b.y + b.height) - intersection_y
             intersection_area == intersection_width * intersection_height
             union_area == a.width * a.height + b.width * b.height - intersection_area
         IN  IF union_area > 0 THEN (intersection_area * 1000) \div union_area ELSE 0

\* is_error_message
IsErrorMessage(text) ==
    ContainsAny(text,
        {<<"e", "r", "r", "o", "r">>, <<"f", "a", "i", "l", "e", "d">>,
         <<"i", "n", "v", "a", "l", "i", "d">>,
         <<"i", "n", "c", "o", "r", "r", "e", "c", "t">>,
         <<"w", "r", "o", "n", "g">>, <<"c", "a", "n", "n", "o", "t">>,
         <<"u", "n", "a", "b", "l", "e">>, <<"d", "e", "n", "i", "e", "d">>,
         <<"f", "o", "r", "b", "i", "d", "d", "e", "n">>,
         <<"t", "i", "m", "e", "o", "u", "t">>,
         <<"e", "x", "c", "e", "p", "t", "i", "o", "n">>,
         <<"w", "a", "r", "n", "i", "n", "g">>, <<"a", "l", "e", "r", "t">>,
         <<"p", "r", "o", "b", "l", "e", "m">>})

\* is_modal_dialog
IsModalDialog(text) ==
    ContainsAny(text,
        {<<"c", "o", "n", "f", "i", "r", "m">>,
         <<"c", "a", "n", "c", "e", "l">>, <<"o", "k">>, <<"y", "e", "s">>,
         <<"n", "o">>, <<"c", "l", "o", "s", "e">>,
         <<"d", "i", "a", "l", "o", "g">>, <<"p", "o", "p", "u", "p">>,
         <<"m", "o", "d", "a", "l">>, <<"a", "l", "e", "r", "t">>,
         <<"n", "o", "t", "i", "f", "i", "c", "a", "t", "i", "o", "n">>})

\* is_form_submission
IsFormSubmission(text) ==
    ContainsAny(text,
        {<<"s", "u", "b", "m", "i", "t">>, <<"s", "e", "n", "d">>,
         <<"s", "a", "v", "e">>, <<"c", "r", "e", "a", "t", "e">>,
         <<"u", "p", "d", "a", "t", "e">>, <<"l", "o", "g", "i", "n">>,
         <<"r", "e", "g", "i", "s", "t", "e", "r">>,
         <<"s", "i", "g", "n", " ", "i", "n">>,
         <<"s", "i", "g", "n", " ", "u", "p">>,
         <<"c", "o", "n", "t", "i", "n", "u", "e">>})

\* is_interactive_element
IsInteractiveElement(text) ==
    \/ ContainsAny(text, {<<"e", "n", "t", "e", "r">>, <<"i", "n", "p", "u", "t">>,
                          <<"s", "e", "l", "e", "c", "t">>, <<"c", "h", "o", "o", "s", "e">>})
    \/ (text # <<>> /\ ToLowercase(text)[Len(text)] = ":")
    \/ Contains(ToLowercase(text), <<"@">>)
    \/ \A i \in 1..Len(text) :
          text[i] \in {"0", "1", "2", "3", "4", "5", "6", "7", "8", "9"}

\* generate_field_id: the four coordinates cast to i32
GenerateFieldId(roi) ==
    <<roi.x \div 2, roi.y \div 2, roi.width \div 2, roi.height \div 2>>

\* compile_error_patterns, compile_modal_patterns and
\* compile_system_alert_patterns, in the order analyze_text_for_errors_modals
\* tries them
CompiledPatterns ==
    <<[list |-> "error", pattern_type |-> "critical_error", confidence_weight |-> 900,
       alternatives |->
         {<<"f", "a", "t", "a", "l">>,
          <<"c", "r", "i", "t", "i", "c", "a", "l">>,
          <<"c", "r", "a", "s", "h">>, <<"p", "a", "n", "i", "c">>,
          <<"a", "b", "o", "r", "t">>}],
      [list |-> "error", pattern_type |-> "critical_error", confidence_weight |-> 950,
       alternatives |->
         {<<"s", "e", "g", "m", "e", "n", "t", "a", "t", "i", "o", "n", " ", "f", "a", "u", "l", "t">>,
          <<"a", "c", "c", "e", "s", "s", " ", "v", "i", "o", "l", "a", "t", "i", "o", "n">>,
          <<"n", "u", "l", "l", " ", "p", "o", "i", "n", "t", "e", "r">>}],
      [list |-> "error", pattern_type |-> "network_error", confidence_weight |-> 800,
       alternatives |->
         {<<"c", "o", "n", "n", "e", "c", "t", "i", "o", "n", " ", "f", "a", "i", "l", "e", "d">>,
          <<"c", "o", "n", "n", "e", "c", "t", "i", "o", "n", " ", "r", "e", "f", "u", "s", "e", "d">>,
          <<"c", "o", "n", "n", "e", "c", "t", "i", "o", "n", " ", "t", "i", "m", "e", "o", "u", "t">>,
          <<"n", "e", "t", "w", "o", "r", "k", " ", "e", "r", "r", "o", "r">>,
          <<"n", "e", "t", "w", "o", "r", "k", " ", "u", "n", "a", "v", "a", "i", "l", "a", "b", "l", "e">>}],
      [list |-> "error", pattern_type |-> "network_error", confidence_weight |-> 850,
       alternatives |->
         {<<"d", "n", "s", " ", "e", "r", "r", "o", "r">>,
          <<"d", "n", "s", " ", "f", "a", "i", "l", "e", "d">>,
          <<"h", "o", "s", "t", " ", "n", "o", "t", " ", "f", "o", "u", "n", "d">>,
          <<"s", "e", "r", "v", "e", "r", " ", "n", "o", "t", " ", "r", "e", "s", "p", "o", "n", "d", "i", "n", "g">>}],
      [list |-> "error", pattern_type |-> "auth_error", confidence_weight |-> 800,
       alternatives |->
         {<<"a", "c", "c", "e", "s", "s", " ", "d", "e", "n", "i", "e", "d">>,
          <<"u", "n", "a", "u", "t", "h", "o", "r", "i", "z", "e", "d">>,
          <<"a", "u", "t", "h", "e", "n", "t", "i", "c", "a", "t", "i", "o", "n", " ", "f", "a", "i", "l", "e", "d">>,
          <<"a", "u", "t", "h", "e", "n", "t", "i", "c", "a", "t", "i", "o", "n", " ", "r", "e", "q", "u", "i", "r", "e", "d">>}],
      [list |-> "error", pattern_type |-> "auth_error", confidence_weight |-> 850,
       alternatives |->
         {<<"l", "o", "g", "i", "n", " ", "f", "a", "i", "l", "e", "d">>,
          <<"l", "o", "g", "i", "n", " ", "i", "n", "v", "a", "l", "i", "d">>,
          <<"i", "n", "c", "o", "r", "r", "e", "c", "t", " ", "p", "a", "s", "s", "w", "o", "r", "d">>,
          <<"i", "n", "c", "o", "r", "r", "e", "c", "t", " ", "c", "r", "e", "d", "e", "n", "t", "i", "a", "l", "s">>}],
      [list |-> "error", pattern_type |-> "auth_error", confidence_weight |-> 800,
       alternatives |->
         {<<"p", "e", "r", "m", "i", "s", "s", "i", "o", "n", " ", "d", "e", "n", "i", "e", "d">>,
          <<"i", "n", "s", "u", "f", "f", "i", "c", "i", "e", "n", "t", " ", "p", "r", "i", "v", "i", "l", "e", "g", "e", "s">>}],
      [list |-> "error", pattern_type |-> "validation_error", confidence_weight |-> 700,
       alternatives |->
         {<<"i", "n", "v", "a", "l", "i", "d", " ", "i", "n", "p", "u", "t">>,
          <<"i", "n", "v", "a", "l", "i", "d", " ", "f", "o", "r", "m", "a", "t">>,
          <<"i", "n", "v", "a", "l", "i", "d", " ", "v", "a", "l", "u", "e">>,
          <<"v", "a", "l", "i", "d", "a", "t", "i", "o", "n", " ", "f", "a", "i", "l", "e", "d">>,
          <<"v", "a", "l", "i", "d", "a", "t", "i", "o", "n", " ", "e", "r", "r", "o", "r">>}],
      [list |-> "error", pattern_type |-> "validation_error", confidence_weight |-> 750,
       alternatives |->
         {<<"r", "e", "q", "u", "i", "r", "e", "d", " ", "f", "i", "e", "l", "d">>,
          <<"m", "i", "s", "s", "i", "n", "g", " ", "v", "a", "l", "u", "e">>,
          <<"m", "i", "s", "s", "i", "n", "g", " ", "i", "n", "p", "u", "t">>,
          <<"f", "i", "e", "l", "d", " ", "c", "a", "n", "n", "o", "t", " ", "b", "e", " ", "e", "m", "p", "t", "y">>}],
      [list |-> "error", pattern_type |-> "application_error", confidence_weight |-> 600,
       alternatives |->
         {<<"e", "r", "r", "o", "r">>, <<"f", "a", "i", "l", "e", "d">>,
          <<"e", "x", "c", "e", "p", "t", "i", "o", "n">>,
          <<"p", "r", "o", "b", "l", "e", "m">>}],
      [list |-> "error", pattern_type |-> "application_error", confidence_weight |-> 500,
       alternatives |->
         {<<"c", "a", "n", "n", "o", "t">>,
          <<"u", "n", "a", "b", "l", "e", " ", "t", "o">>,
          <<"f", "a", "i", "l", "e", "d", " ", "t", "o">>}],
      [list |-> "error", pattern_type |-> "warning", confidence_weight |-> 700,
       alternatives |->
         {<<"w", "a", "r", "n", "i", "n", "g">>,
          <<"c", "a", "u", "t", "i", "o", "n">>,
          <<"n", "o", "t", "i", "c", "e">>}],
      [list |-> "modal", pattern_type |-> "confirmation_dialog", confidence_weight |-> 800,
       alternatives |->
         {<<"c", "o", "n", "f", "i", "r", "m">>,
          <<"a", "r", "e", " ", "y", "o", "u", " ", "s", "u", "r", "e">>,
          <<"d", "o", " ", "y", "o", "u", " ", "w", "a", "n", "t", " ", "t", "o">>}],
      [list |-> "modal", pattern_type |-> "confirmation_dialog", confidence_weight |-> 600,
       alternatives |->
         {<<"y", "e", "s">>, <<"n", "o">>, <<"o", "k">>,
          <<"c", "a", "n", "c", "e", "l">>,
          <<"c", "o", "n", "t", "i", "n", "u", "e">>,
          <<"a", "b", "o", "r", "t">>}],
      [list |-> "modal", pattern_type |-> "file_dialog", confidence_weight |-> 850,
       alternatives |->
         {<<"o", "p", "e", "n", " ", "f", "i", "l", "e">>,
          <<"o", "p", "e", "n", " ", "f", "o", "l", "d", "e", "r">>,
          <<"o", "p", "e", "n", " ", "d", "i", "r", "e", "c", "t", "o", "r", "y">>,
          <<"s", "a", "v", "e", " ", "f", "i", "l", "e">>,
          <<"s", "a", "v", "e", " ", "f", "o", "l", "d", "e", "r">>,
          <<"s", "a", "v", "e", " ", "d", "i", "r", "e", "c", "t", "o", "r", "y">>,
          <<"c", "h", "o", "o", "s", "e", " ", "f", "i", "l", "e">>,
          <<"c", "h", "o", "o", "s", "e", " ", "f", "o", "l", "d", "e", "r">>,
          <<"c", "h", "o", "o", "s", "e", " ", "d", "i", "r", "e", "c", "t", "o", "r", "y">>,
          <<"s", "e", "l", "e", "c", "t", " ", "f", "i", "l", "e">>,
          <<"s", "e", "l", "e", "c", "t", " ", "f", "o", "l", "d", "e", "r">>,
          <<"s", "e", "l", "e", "c", "t", " ", "d", "i", "r", "e", "c", "t", "o", "r", "y">>}],
      [list |-> "modal", pattern_type |-> "file_dialog", confidence_weight |-> 700,
       alternatives |->
         {<<"b", "r", "o", "w", "s", "e">>, <<"u", "p", "l", "o", "a", "d">>,
          <<"d", "o", "w", "n", "l", "o", "a", "d">>}],
      [list |-> "modal", pattern_type |-> "settings_dialog", confidence_weight |-> 800,
       alternatives |->
         {<<"s", "e", "t", "t", "i", "n", "g", "s">>,
          <<"p", "r", "e", "f", "e", "r", "e", "n", "c", "e", "s">>,
          <<"o", "p", "t", "i", "o", "n", "s">>,
          <<"c", "o", "n", "f", "i", "g", "u", "r", "a", "t", "i", "o", "n">>}],
      [list |-> "modal", pattern_type |-> "settings_dialog", confidence_weight |-> 600,
       alternatives |->
         {<<"a", "p", "p", "l", "y">>, <<"r", "e", "s", "e", "t">>,
          <<"d", "e", "f", "a", "u", "l", "t">>}],
      [list |-> "modal", pattern_type |-> "progress_dialog", confidence_weight |-> 800,
       alternatives |->
         {<<"p", "r", "o", "g", "r", "e", "s", "s">>,
          <<"l", "o", "a", "d", "i", "n", "g">>,
          <<"p", "l", "e", "a", "s", "e", " ", "w", "a", "i", "t">>,
          <<"p", "r", "o", "c", "e", "s", "s", "i", "n", "g">>}],
      [list |-> "modal", pattern_type |-> "progress_dialog", confidence_weight |-> 700,
       alternatives |->
         {<<"0", "%">>, <<"1", "%">>, <<"2", "%">>, <<"3", "%">>,
          <<"4", "%">>, <<"5", "%">>, <<"6", "%">>, <<"7", "%">>,
          <<"8", "%">>, <<"9", "%">>,
          <<"c", "o", "m", "p", "l", "e", "t", "e", "d">>,
          <<"r", "e", "m", "a", "i", "n", "i", "n", "g">>}],
      [list |-> "modal", pattern_type |-> "info_dialog", confidence_weight |-> 700,
       alternatives |->
         {<<"i", "n", "f", "o", "r", "m", "a", "t", "i", "o", "n">>,
          <<"a", "b", "o", "u", "t">>, <<"h", "e", "l", "p">>}],
      [list |-> "modal", pattern_type |-> "info_dialog", confidence_weight |-> 500,
       alternatives |->
         {<<"c", "l", "o", "s", "e">>, <<"d", "i", "s", "m", "i", "s", "s">>}],
      [list |-> "alert", pattern_type |-> "system_alert", confidence_weight |-> 900,
       alternatives |->
         {<<"s", "y", "s", "t", "e", "m", " ", "a", "l", "e", "r", "t">>,
          <<"s", "y", "s", "t", "e", "m", " ", "n", "o", "t", "i", "f", "i", "c", "a", "t", "i", "o", "n">>}],
      [list |-> "alert", pattern_type |-> "system_alert", confidence_weight |-> 850,
       alternatives |->
         {<<"w", "o", "u", "l", "d", " ", "l", "i", "k", "e", " ", "t", "o", " ", "a", "c", "c", "e", "s", "s">>,
          <<"p", "e", "r", "m", "i", "s", "s", "i", "o", "n", " ", "r", "e", "q", "u", "i", "r", "e", "d">>}],
      [list |-> "alert", pattern_type |-> "system_alert", confidence_weight |-> 900,
       alternatives |->
         {<<"s", "e", "c", "u", "r", "i", "t", "y", " ", "w", "a", "r", "n", "i", "n", "g">>,
          <<"s", "e", "c", "u", "r", "i", "t", "y", " ", "a", "l", "e", "r", "t">>}],
      [list |-> "alert", pattern_type |-> "app_alert", confidence_weight |-> 800,
       alternatives |->
         {<<"a", "p", "p", "l", "i", "c", "a", "t", "i", "o", "n", " ", "e", "r", "r", "o", "r">>,
          <<"a", "p", "p", "l", "i", "c", "a", "t", "i", "o", "n", " ", "w", "a", "r", "n", "i", "n", "g">>,
          <<"a", "p", "p", " ", "c", "r", "a", "s", "h", "e", "d">>,
          <<"a", "p", "p", " ", "s", "t", "o", "p", "p", "e", "d">>}],
      [list |-> "alert", pattern_type |-> "app_alert", confidence_weight |-> 700,
       alternatives |->
         {<<"u", "p", "d", "a", "t", "e", " ", "a", "v", "a", "i", "l", "a", "b", "l", "e">>,
          <<"n", "e", "w", " ", "v", "e", "r", "s", "i", "o", "n">>}]>>

(***************************************************************************)
(* EventDetector                                                           *)
(***************************************************************************)
\* a DetectedEvent as the detectors build it: its one evidence frame is the
\* frame under analysis, which also stands for the frame's timestamp
DetectedEvent(type, target, from, to, conf, frame) ==
    [event_type |-> type, target |-> target, value_from |-> from, value_to |-> to,
     confidence |-> conf, evidence_frames |-> <<frame>>, timestamp |-> frame,
     temporal_pattern |-> "none"]

\* match_regions: for each current region the first previous region of the
\* largest IoU above the threshold
MatchRegions(current, previous) ==
    LET RECURSIVE Best(_, _, _, _)
        Best(c, p, best_iou, best_match) ==
            IF p > Len(previous) THEN best_match
            ELSE LET iou == Iou(current[c].roi, previous[p].roi)
                 IN  IF iou > best_iou THEN Best(c, p + 1, iou, p)
                     ELSE Best(c, p + 1, best_iou, best_match)
        RECURSIVE Matches(_)
        Matches(c) ==
            IF c > Len(current) THEN <<>>
            ELSE LET m == Best(c, 1, MinIouThreshold, 0)
                 IN  (IF m = 0 THEN <<>> ELSE << <<c, m>> >>) \o Matches(c + 1)
    IN  Matches(1)

\* find_new_regions: the current regions no previous region overlaps by at
\* least the threshold
FindNewRegions(current, previous) ==
    LET RECURSIVE News(_)
        News(c) ==
            IF c > Len(current) THEN <<>>
            ELSE (IF \E p \in 1..Len(previous) :
                        Iou(current[c].roi, previous[p].roi) >= MinIouThreshold
                  THEN <<>> ELSE <<c>>) \o News(c + 1)
    IN  News(1)

\* create_field_change_event
CreateFieldChangeEvent(frame, current, previous) ==
    LET text_similarity == CalculateTextSimilarity(current.text, previous.text)
        spatial_similarity == Iou(current.roi, previous.roi)
        ocr_confidence == (current.confidence + previous.confidence) \div 2
    IN  Bind((ocr_confidence * 4 + spatial_similarity * 3
              + (1000 - text_similarity) * 3) \div 10,
             LAMBDA weighted :
                 DetectedEvent("FieldChange",
                               [name |-> "field", severity |-> "",
                                field |-> GenerateFieldId(current.roi)],
                               [some |-> TRUE, text |-> previous.text],
                               [some |-> TRUE, text |-> current.text],
                               IF weighted < 1000 THEN weighted ELSE 1000, frame))

\* perform_delta_analysis
PerformDeltaAnalysis(frame, current_results, previous_results) ==
    LET Change(match) ==
            Bind(CreateFieldChangeEvent(frame, current_results[match[1]],
                                        previous_results[match[2]]),
                 LAMBDA change_event :
                     IF /\ current_results[match[1]].text # previous_results[match[2]].text
                        /\ change_event.confidence >= MinEventConfidence
                     THEN <<change_event>> ELSE <<>>)
        RECURSIVE Changes(_, _)
        Changes(region_matches, k) ==
            IF k > Len(region_matches) THEN <<>>
            ELSE Change(region_matches[k]) \o Changes(region_matches, k + 1)
        Entry(new_region) ==
            Bind((new_region.confidence * 8) \div 10,
                 LAMBDA confidence :
                     IF /\ IsInteractiveElement(new_region.text)
                        /\ confidence >= MinEventConfidence
                     THEN <<DetectedEvent("DataEntry",
                                [name |-> "field", severity |-> "",
                                 field |-> GenerateFieldId(new_region.roi)],
                                [some |-> FALSE, text |-> <<>>],
                                [some |-> TRUE, text |-> new_region.text],
                                confidence, frame)>>
                     ELSE <<>>)
        RECURSIVE Entries(_, _)
        Entries(new_regions, k) ==
            IF k > Len(new_regions) THEN <<>>
            ELSE Entry(current_results[new_regions[k]]) \o Entries(new_regions, k + 1)
    IN  Bind(MatchRegions(current_results, previous_results),
             LAMBDA region_matches : Changes(region_matches, 1))
        \o Bind(FindNewRegions(current_results, previous_results),
                LAMBDA new_regions : Entries(new_regions, 1))

\* detect_standalone_events
DetectStandaloneEvents(frame, ocr_results) ==
    LET Standalone(type, name, result, factor) ==
            DetectedEvent(type, [name |-> name, severity |-> "", field |-> <<>>],
                          [some |-> FALSE, text |-> <<>>],
                          [some |-> TRUE, text |-> result.text],
                          (result.confidence * factor) \div 100, frame)
        RECURSIVE Each(_)
        Each(k) ==
            IF k > Len(ocr_results) THEN <<>>
            ELSE LET result == ocr_results[k]
                 IN  (IF IsErrorMessage(result.text)
                      THEN <<Standalone("ErrorDisplay", "error_dialog", result, 90)>>
                      ELSE <<>>)
                     \o (IF IsModalDialog(result.text)
                         THEN <<Standalone("ModalAppearance", "modal_dialog", result, 85)>>
                         ELSE <<>>)
                     \o (IF IsFormSubmission(result.text)
                         THEN <<Standalone("FormSubmission", "form_submit", result, 80)>>
                         ELSE <<>>)
                     \o Each(k + 1)
    IN  Each(1)

(***************************************************************************)
(* ErrorModalDetector                                                      *)
(***************************************************************************)
\* analyze_text_for_errors_modals: the ErrorModalEvent of one OCR result, if
\* any.  Every matching pattern assigns the type and the severity, so the
\* last matching pattern decides them.
AnalyzeTextForErrorsModals(frame, ocr_result) ==
    LET matched == {i \in 1..Len(CompiledPatterns) :
                       ContainsAny(ocr_result.text, CompiledPatterns[i].alternatives)}
        RECURSIVE Total(_)
        Total(i) == IF i > Len(CompiledPatterns) THEN 0
                    ELSE (IF i \in matched THEN CompiledPatterns[i].confidence_weight
                          ELSE 0) + Total(i + 1)
        last == CompiledPatterns[CHOOSE i \in matched : \A j \in matched : j <= i]
        kind == IF last.list = "error"
                THEN CASE last.pattern_type = "critical_error" -> <<"system_error", "critical">>
                       [] last.pattern_type = "network_error" -> <<"network_error", "high">>
                       [] last.pattern_type = "auth_error" -> <<"auth_error", "high">>
                       [] last.pattern_type = "validation_error" -> <<"validation_error", "medium">>
                       [] last.pattern_type = "warning" -> <<"warning", "medium">>
                       [] OTHER -> <<"application_error", "medium">>
                ELSE IF last.list = "modal"
                THEN CASE last.pattern_type = "confirmation_dialog" -> <<"confirmation_dialog", "info">>
                       [] last.pattern_type = "file_dialog" -> <<"file_dialog", "info">>
                       [] last.pattern_type = "settings_dialog" -> <<"settings_dialog", "info">>
                       [] last.pattern_type = "progress_dialog" -> <<"progress_dialog", "info">>
                       [] OTHER -> <<"info_dialog", "info">>
                ELSE <<"alert_dialog", "high">>
        average == Total(1) \div Cardinality(matched)
        base_confidence == IF average < 1000 THEN average ELSE 1000
        weighted == (base_confidence * 7 + ocr_result.confidence * 3) \div 10
        final_confidence == IF weighted < 1000 THEN weighted ELSE 1000
    IN  IF matched = {} THEN <<>>
        \* min_error_confidence and min_modal_confidence are both 0.6
        ELSE IF final_confidence < 600 THEN <<>>
        ELSE <<[event_type |-> kind[1], severity |-> kind[2],
                message |-> ocr_result.text, confidence |-> final_confidence,
                frame_id |-> frame]>>

\* analyze_layout on the 1920 x 1080 screen DeltaAnalyzer passes: the layout
\* confidence of a bounding box
AnalyzeLayout(roi) ==
    LET size_ok == /\ roi.width >= 400 /\ roi.height >= 200
                   /\ roi.width <= 3072 /\ roi.height <= 1728
        is_centered == /\ Abs(2 * roi.x + roi.width - 3840) <= 1536
                       /\ Abs(2 * roi.y + roi.height - 2160) <= 864
        aspect_ok == /\ roi.height > 0
                     /\ 10 * roi.width >= 8 * roi.height
                     /\ roi.width <= 3 * roi.height
        inside == /\ roi.x > 100 /\ roi.y > 100
                  /\ roi.x + roi.width < 3840 - 100
                  /\ roi.y + roi.height < 2160 - 100
    IN  (IF size_ok THEN 400 ELSE 0) + (IF is_centered THEN 300 ELSE 0)
        + (IF aspect_ok THEN 200 ELSE 0) + (IF inside THEN 100 ELSE 0)

\* detect_dialog_layouts: group the results by spatial proximity, and report
\* each group of two or more whose bounding box is laid out like a dialog
DetectDialogLayouts(frame, ocr_results) ==
    LET n == Len(ocr_results)
        \* calculate_spatial_distance(i, j) < 100.0
        Near(i, j) ==
            LET a == ocr_results[i].roi
                b == ocr_results[j].roi
                dx == (2 * a.x + a.width) - (2 * b.x + b.width)
                dy == (2 * a.y + a.height) - (2 * b.y + b.height)
            IN  dx * dx + dy * dy < 400 * 400
        RECURSIVE Groups(_, _)
        Groups(i, used) ==
            IF i > n THEN <<>>
            ELSE IF i \in used THEN Groups(i + 1, used)
            ELSE LET group == {i} \cup {j \in (i + 1)..n : j \notin used /\ Near(i, j)}
                 IN  <<group>> \o Groups(i + 1, used \cup group)
        groups == Groups(1, {})
        RECURSIVE Join(_, _)
        Join(group, i) ==
            IF i > n THEN <<>>
            ELSE IF i \notin group THEN Join(group, i + 1)
            ELSE (IF \E j \in group : j < i THEN <<" ">> ELSE <<>>)
                 \o ocr_results[i].text \o Join(group, i + 1)
        Box(group) ==
            LET min_x == CHOOSE v \in {ocr_results[i].roi.x : i \in group} :
                            \A i \in group : v <= ocr_results[i].roi.x
                min_y == CHOOSE v \in {ocr_results[i].roi.y : i \in group} :
                            \A i \in group : v <= ocr_results[i].roi.y
                max_x == CHOOSE v \in {ocr_results[i].roi.x + ocr_results[i].roi.width :
                                          i \in group} :
                            \A i \in group :
                                v >= ocr_results[i].roi.x + ocr_results[i].roi.width
                max_y == CHOOSE v \in {ocr_results[i].roi.y + ocr_results[i].roi.height :
                                          i \in group} :
                            \A i \in group :
                                v >= ocr_results[i].roi.y + ocr_results[i].roi.height
            IN  [x |-> min_x, y |-> min_y, width |-> max_x - min_x,
                 height |-> max_y - min_y]
        Has(text, word) == Contains(ToLowercase(text), word)
        \* classify_dialog_by_content
        Classify(text) ==
            IF \/ Has(text, <<"s", "a", "v", "e">>) \/ Has(text, <<"o", "p", "e", "n">>)
               \/ Has(text, <<"f", "i", "l", "e">>)
            THEN "file_dialog"
            ELSE IF \/ Has(text, <<"s", "e", "t", "t", "i", "n", "g", "s">>)
                    \/ Has(text, <<"p", "r", "e", "f", "e", "r", "e", "n", "c", "e", "s">>)
                    \/ Has(text, <<"o", "p", "t", "i", "o", "n", "s">>)
            THEN "settings_dialog"
            ELSE IF \/ Has(text, <<"p", "r", "o", "g", "r", "e", "s", "s">>)
                    \/ Has(text, <<"l", "o", "a", "d", "i", "n", "g">>)
                    \/ Has(text, <<"%">>)
            THEN "progress_dialog"
            ELSE IF \/ Has(text, <<"c", "o", "n", "f", "i", "r", "m">>)
                    \/ Has(text, <<"a", "r", "e", " ", "y", "o", "u", " ", "s", "u", "r", "e">>)
            THEN "confirmation_dialog"
            ELSE IF \/ Has(text, <<"e", "r", "r", "o", "r">>)
                    \/ Has(text, <<"f", "a", "i", "l", "e", "d">>)
                    \/ Has(text, <<"i", "n", "v", "a", "l", "i", "d">>)
            THEN "application_error"
            ELSE IF \/ Has(text, <<"w", "a", "r", "n", "i", "n", "g">>)
                    \/ Has(text, <<"c", "a", "u", "t", "i", "o", "n">>)
            THEN "warning"
            ELSE IF \/ Has(text, <<"a", "l", "e", "r", "t">>)
                    \/ Has(text, <<"a", "t", "t", "e", "n", "t", "i", "o", "n">>)
            THEN "alert_dialog"
            ELSE "info_dialog"
        \* determine_severity_by_content
        Severity(text) ==
            IF \/ Has(text, <<"c", "r", "i", "t", "i", "c", "a", "l">>)
               \/ Has(text, <<"f", "a", "t", "a", "l">>)
               \/ Has(text, <<"c", "r", "a", "s", "h">>)
            THEN "critical"
            ELSE IF \/ Has(text, <<"e", "r", "r", "o", "r">>)
                    \/ Has(text, <<"f", "a", "i", "l", "e", "d">>)
                    \/ Has(text, <<"d", "e", "n", "i", "e", "d">>)
            THEN "high"
            ELSE IF \/ Has(text, <<"w", "a", "r", "n", "i", "n", "g">>)
                    \/ Has(text, <<"c", "a", "u", "t", "i", "o", "n">>)
                    \/ Has(text, <<"i", "n", "v", "a", "l", "i", "d">>)
            THEN "medium"
            ELSE IF \/ Has(text, <<"n", "o", "t", "i", "c", "e">>)
                    \/ Has(text, <<"a", "t", "t", "e", "n", "t", "i", "o", "n">>)
            THEN "low"
            ELSE "info"
        RECURSIVE Dialogs(_)
        Dialogs(k) ==
            IF k > Len(groups) THEN <<>>
            ELSE LET group == groups[k]
                     layout_confidence == AnalyzeLayout(Box(group))
                     combined_text == Join(group, 1)
                 IN  (IF Cardinality(group) >= 2 /\ layout_confidence >= 600
                      THEN <<[event_type |-> Classify(combined_text),
                              severity |-> Severity(combined_text),
                              message |-> combined_text,
                              confidence |-> layout_confidence,
                              frame_id |-> frame]>>
                      ELSE <<>>) \o Dialogs(k + 1)
    IN  Dialogs(1)

\* detect_errors_and_modals: the pattern events of every result, then the
\* layout events (group_related_elements returns them as they are)
DetectErrorsAndModals(frame, ocr_results) ==
    \* the detector's own min_ocr_confidence is 0.7
    LET high_confidence_results == SelectSeq(ocr_results, LAMBDA r : r.confidence >= 700)
        RECURSIVE Each(_)
        Each(k) ==
            IF k > Len(high_confidence_results) THEN <<>>
            ELSE AnalyzeTextForErrorsModals(frame, high_confidence_results[k])
                 \o Each(k + 1)
    IN  IF high_confidence_results = <<>> THEN <<>>
        ELSE Each(1) \o DetectDialogLayouts(frame, high_confidence_results)

\* convert_error_modal_to_detected_event
ConvertErrorModalToDetectedEvent(error_modal_event) ==
    DetectedEvent(IF error_modal_event.event_type
                        \in {"system_error", "application_error", "network_error",
                             "auth_error", "validation_error", "warning"}
                  THEN "ErrorDisplay" ELSE "ModalAppearance",
                  [name |-> error_modal_event.event_type,
                   severity |-> error_modal_event.severity, field |-> <<>>],
                  [some |-> FALSE, text |-> <<>>],
                  [some |-> TRUE, text |-> error_modal_event.message],
                  error_modal_event.confidence, error_modal_event.frame_id)

(***************************************************************************)
(* EventDetector::analyze_frame                                            *)
(***************************************************************************)
\* update_field_tracker: for each result in turn, record a change of the
\* field's value and store the field's new state
UpdateFieldTracker(tracker, frame, ocr_results) ==
    LET RECURSIVE Each(_, _)
        Each(k, t) ==
            IF k > Len(ocr_results) THEN t
            ELSE LET result == ocr_results[k]
                     field_id == GenerateFieldId(result.roi)
                     known == {s \in t.fields : s.field_id = field_id}
                     changed == {s \in known : s.value # result.text}
                 IN  Each(k + 1,
                          [fields |->
                               (t.fields \ known)
                               \cup {[field_id |-> field_id, value |-> result.text,
                                      roi |-> result.roi, last_updated |-> frame,
                                      confidence |-> result.confidence,
                                      frame_id |-> frame]},
                           change_history |->
                               IF changed = {} THEN t.change_history
                               ELSE Append(t.change_history,
                                           [field_id |-> field_id,
                                            value_from |-> (CHOOSE s \in changed : TRUE).value,
                                            value_to |-> result.text,
                                            timestamp |-> frame,
                                            confidence |-> result.confidence])])
    IN  Each(1, tracker)

\* get_previous_frame_results: the value the map's iterator yields first;
\* "first" is the key at the head of the HashMap's iteration order
GetPreviousFrameResults(cache, first) == {e \in cache : e.frame_id = first}

\* cache_frame_results: when the map is full remove the key its iterator
\* yields first, then insert
CacheFrameResults(cache, first, frame, results) ==
    LET kept == IF Cardinality(cache) >= MaxCachedFrames
                THEN {e \in cache : e.frame_id # first}
                ELSE cache
    IN  {e \in kept : e.frame_id # frame}
        \cup {[frame_id |-> frame, results |-> results]}

\* analyze_frame with the frame cached before the previous frame is looked up,
\* the new key coming first in the map; AnalyzeFrame is compared with it
AnalyzeFrameCachingFirst(detector, frame, ocr_results, first) ==
    Bind(SelectSeq(ocr_results, LAMBDA r : r.confidence >= MinOcrConfidence),
         LAMBDA high_confidence_results :
    Bind(GetPreviousFrameResults(
             CacheFrameResults(detector.previous_frame_cache, first, frame,
                               high_confidence_results), frame),
         LAMBDA previous :
    Bind(DetectErrorsAndModals(frame, ocr_results),
         LAMBDA error_modal_events :
             LET delta_events ==
                     IF previous = {} THEN <<>>
                     ELSE PerformDeltaAnalysis(frame, high_confidence_results,
                                               (CHOOSE e \in previous : TRUE).results)
                 standalone_events ==
                     DetectStandaloneEvents(frame, high_confidence_results)
             IN  IF high_confidence_results = <<>>
                 THEN [detector |-> detector, events |-> <<>>, previous |-> {}]
                 ELSE [detector |->
                           [previous_frame_cache |->
                                CacheFrameResults(detector.previous_frame_cache, first,
                                                  frame, high_confidence_results),
                            field_tracker |->
                                UpdateFieldTracker(detector.field_tracker, frame,
                                                   high_confidence_results)],
                       events |->
                           delta_events \o standalone_events
                           \o [k \in 1..Len(error_modal_events) |->
                                  ConvertErrorModalToDetectedEvent(error_modal_events[k])],
                       previous |-> {e.frame_id : e \in previous}])))

\* EventDetector::analyze_frame
AnalyzeFrame(detector, frame, ocr_results, first) ==
    Bind(SelectSeq(ocr_results, LAMBDA r : r.confidence >= MinOcrConfidence),
         LAMBDA high_confidence_results :
    Bind(GetPreviousFrameResults(detector.previous_frame_cache, first),
         LAMBDA previous :
    Bind(DetectErrorsAndModals(frame, ocr_results),
         LAMBDA error_modal_events :
             LET delta_events ==
                     IF previous = {} THEN <<>>
                     ELSE PerformDeltaAnalysis(frame, high_confidence_results,
                                               (CHOOSE e \in previous : TRUE).results)
                 standalone_events ==
                     DetectStandaloneEvents(frame, high_confidence_results)
             IN  IF high_confidence_results = <<>>
                 THEN [detector |-> detector, events |-> <<>>, previous |-> {}]
                 ELSE [detector |->
                           [previous_frame_cache |->
                                CacheFrameResults(detector.previous_frame_cache, first,
                                                  frame, high_confidence_results),
                            field_tracker |->
                                UpdateFieldTracker(detector.field_tracker, frame,
                                                   high_confidence_results)],
                       events |->
                           delta_events \o standalone_events
                           \o [k \in 1..Len(error_modal_events) |->
                                  ConvertErrorModalToDetectedEvent(error_modal_events[k])],
                       previous |-> {e.frame_id : e \in previous}])))

(***************************************************************************)
(* DeltaAnalyzer                                                           *)
(***************************************************************************)
\* analyze_temporal_context: how often a similar event (same type, same
\* target) occurred in the recent frames
AnalyzeTemporalContext(recent_frames, event) ==
    LET total_frames == Len(recent_frames)
        pattern_matches ==
            Cardinality({i \in 1..total_frames :
                \E k \in 1..Len(recent_frames[i].detected_events) :
                    /\ recent_frames[i].detected_events[k].event_type = event.event_type
                    /\ recent_frames[i].detected_events[k].target = event.target})
    IN  IF total_frames = 0 THEN "none"
        ELSE IF 10 * pattern_matches > 7 * total_frames THEN "frequent_pattern"
        ELSE IF 10 * pattern_matches > 3 * total_frames THEN "occasional_pattern"
        ELSE "rare_event"

\* calculate_temporal_confidence without the final clamp
CalculateTemporalConfidenceUnclamped(base_confidence, pattern_type) ==
    base_confidence
    + (CASE pattern_type = "frequent_pattern" -> 100
         [] pattern_type = "occasional_pattern" -> 50
         [] pattern_type = "rare_event" -> -50
         [] OTHER -> 0)

\* calculate_temporal_confidence
CalculateTemporalConfidence(base_confidence, pattern_type) ==
    Clamp(base_confidence
          + (CASE pattern_type = "frequent_pattern" -> 100
               [] pattern_type = "occasional_pattern" -> 50
               [] pattern_type = "rare_event" -> -50
               [] OTHER -> 0))

\* enhance_events_with_temporal_context
EnhanceEventsWithTemporalContext(recent_frames, events) ==
    [k \in 1..Len(events) |->
        Bind(AnalyzeTemporalContext(recent_frames, events[k]),
             LAMBDA context :
                 IF context = "none" THEN events[k]
                 ELSE [events[k] EXCEPT
                          !.confidence =
                              CalculateTemporalConfidence(events[k].confidence, context),
                          !.temporal_pattern = context])]

\* update_frame_sequence: push, drop from the front while over the limit,
\* then sort by timestamp (a stable sort)
UpdateFrameSequence(recent_frames, frame_info) ==
    LET pushed == Append(recent_frames, frame_info)
        bounded == DropFront(pushed, MaxPreviousFrames)
        RECURSIVE Insert(_, _)
        Insert(f, s) ==
            IF s = <<>> THEN <<f>>
            ELSE IF f.timestamp < Head(s).timestamp THEN <<f>> \o s
            ELSE <<Head(s)>> \o Insert(f, Tail(s))
        RECURSIVE Sort(_)
        Sort(s) == IF s = <<>> THEN <<>>
                   ELSE Insert(s[Len(s)], Sort(SubSeq(s, 1, Len(s) - 1)))
    IN  Sort(bounded)

\* DeltaAnalyzer::analyze_frame; flush is the outcome of the event writer's
\* flush_batch, should write_events reach its batch size
DeltaAnalyzeFrame(analyzer, frame, ocr_results, first, flush) ==
    Bind(SelectSeq(ocr_results, LAMBDA r : r.confidence >= MinOcrConfidence),
         LAMBDA high_confidence_results :
    IF high_confidence_results = <<>>
    THEN [analyzer |-> analyzer, ok |-> TRUE, flushed |-> FALSE, events |-> <<>>,
          previous |-> {}]
    ELSE
    Bind(AnalyzeFrame(analyzer.event_detector, frame, high_confidence_results, first),
         LAMBDA detected :
    \* enable_temporal_context is on by default
    Bind(SelectSeq(EnhanceEventsWithTemporalContext(analyzer.recent_frames,
                                                    detected.events),
                   LAMBDA e : e.confidence >= MinEventConfidence),
         LAMBDA final_events :
    Bind(IF /\ final_events # <<>>
            /\ Len(analyzer.current_batch) + Len(final_events) >= EventsBatchSize
         THEN FlushBatch("events", FALSE, analyzer.current_batch \o final_events,
                         analyzer.output_dir, 0, flush)
         ELSE [ok |-> TRUE, flushed |-> FALSE, attempts |-> 0,
               batch |-> analyzer.current_batch \o final_events,
               dir |-> analyzer.output_dir],
         LAMBDA written :
    Bind([analyzer EXCEPT !.event_detector = detected.detector,
                          !.current_batch = written.batch,
                          !.output_dir = written.dir],
         LAMBDA advanced :
             IF ~written.ok
             THEN [analyzer |-> advanced, ok |-> FALSE, flushed |-> TRUE,
                   events |-> <<>>, previous |-> detected.previous]
             ELSE [analyzer |->
                       [advanced EXCEPT !.recent_frames =
                            UpdateFrameSequence(analyzer.recent_frames,
                                [frame_id |-> frame, timestamp |-> frame,
                                 ocr_results |-> high_confidence_results,
                                 detected_events |-> final_events])],
                   ok |-> TRUE, flushed |-> written.flushed, events |-> final_events,
                   previous |-> detected.previous])))))

\* record_batches_to_events: the columns read back; the evidence list and
\* the metadata are not read
RecordBatchesToEvents(rows) ==
    [k \in 1..Len(rows) |->
        [rows[k] EXCEPT !.evidence_frames = <<>>, !.temporal_pattern = "none"]]

(***************************************************************************)
(* Two runs of the delta analyzer over one sequence of frames              *)
(***************************************************************************)
\* the OCR results of one frame
Screens ==
    LET dialog == [x |-> 1600, y |-> 800, width |-> 600, height |-> 200]
        \* half a pixel to the right of dialog
        shifted == [x |-> 1601, y |-> 800, width |-> 600, height |-> 200]
        button == [x |-> 1720, y |-> 1000, width |-> 200, height |-> 80]
        R(text, roi, confidence) ==
            [text |-> text, roi |-> roi, confidence |-> confidence]
    IN  {<<R(<<"a", "b">>, dialog, 900)>>,
         <<R(<<"a", "c">>, shifted, 900)>>,
         <<R(<<"e", "r", "r", "o", "r">>, dialog, 900), R(<<"O", "K">>, button, 800)>>,
         <<R(<<"s", "a", "v", "e">>, dialog, 600)>>}

\* the two runs
Runs == {1, 2}

NoEventQuery == [asked |-> FALSE, ok |-> TRUE, events |-> <<>>]

\* a run before its first frame: DeltaAnalyzer::with_config
NewAnalysis ==
    [analyzer |-> [event_detector |-> [previous_frame_cache |-> {},
                                       field_tracker |-> [fields |-> {},
                                                          change_history |-> <<>>]],
                   recent_frames |-> <<>>,
                   current_batch |-> <<>>,
                   output_dir |-> [p \in Paths |-> NoFile]],
     ok |-> TRUE, events |-> <<>>, previous |-> {}, cached |-> {},
     query |-> NoEventQuery]

\* both runs analyse the next frame; each run's HashMap has its own
\* iteration order
AnalyzeNextFrame ==
    /\ det_frames < MaxDetFrames
    /\ \E ocr_results \in Screens, first \in [Runs -> 0..det_frames] :
           /\ \A r \in Runs :
                 LET keys == {e.frame_id :
                                 e \in det[r].analyzer.event_detector.previous_frame_cache}
                 IN  first[r] \in (IF keys = {} THEN {0} ELSE keys)
           /\ \E written \in {[r \in Runs |->
                                 DeltaAnalyzeFrame(det[r].analyzer, det_frames + 1,
                                                   ocr_results, first[r], "ok")]} :
              \* the outcome of the write matters only when a batch is flushed
              \E flush \in IF \E r \in Runs : written[r].flushed
                            THEN FlushOutcomes("events", FALSE) ELSE {"ok"} :
              \E next \in {IF flush = "ok" THEN written
                            ELSE [r \in Runs |->
                                     DeltaAnalyzeFrame(det[r].analyzer, det_frames + 1,
                                                       ocr_results, first[r], flush)]} :
                 /\ det' = [r \in Runs |->
                              [det[r] EXCEPT
                                  !.analyzer = next[r].analyzer,
                                  !.ok = next[r].ok,
                                  !.events = next[r].events,
                                  !.previous = next[r].previous,
                                  !.query = NoEventQuery,
                                  !.cached = {e.frame_id : e \in
                                      det[r].analyzer.event_detector.previous_frame_cache}]]
           /\ det_frames' = det_frames + 1
    /\ UNCHANGED <<wvars, nvars, svars, uvars, pvars>>

\* DeltaAnalyzer::flush in both runs
DeltaFlush ==
    /\ \E r \in Runs : det[r].analyzer.current_batch # <<>>
    /\ \E outcome \in FlushOutcomes("events", FALSE) :
           det' = [r \in Runs |->
                      Bind(FlushBatch("events", FALSE, det[r].analyzer.current_batch,
                                      det[r].analyzer.output_dir, 0, outcome),
                           LAMBDA w :
                               [det[r] EXCEPT !.analyzer.current_batch = w.batch,
                                              !.analyzer.output_dir = w.dir,
                                              !.ok = w.ok,
                                              !.query = NoEventQuery])]
    /\ det' # det
    /\ UNCHANGED <<det_frames, wvars, nvars, svars, uvars, pvars>>

\* DeltaAnalyzer::query_events_by_confidence in both runs
QueryEvents ==
    /\ \E min \in {0, 800} :
           det' = [r \in Runs |->
                      Bind(QueryByConfidence(det[r].analyzer.output_dir, min),
                           LAMBDA q :
                               [det[r] EXCEPT
                                   !.query = [asked |-> TRUE, ok |-> q.ok,
                                              events |-> RecordBatchesToEvents(q.rows)]])]
    /\ det' # det
    /\ UNCHANGED <<det_frames, wvars, nvars, svars, uvars, pvars>>

DNext ==
    \/ AnalyzeNextFrame
    \/ DeltaFlush
    \/ QueryEvents

(***************************************************************************)
(* A DeltaAnalyzer whose event writer's batch fills up                     *)
(***************************************************************************)
\* the two screens a long run alternates between
RunScreen(frame) ==
    IF frame % 2 = 0
    THEN CHOOSE s \in Screens : Len(s) = 1 /\ s[1].text = <<"a", "b">>
    ELSE CHOOSE s \in Screens : Len(s) = 2

RECURSIVE AnalyzeFrames(_, _, _)
\* analyze_frame on the frames lo..hi of a run, each compared with the frame
\* before it and each written successfully; the run ends early once the
\* batch is one event short of batch_size
AnalyzeFrames(run, lo, hi) ==
    IF lo > hi THEN run
    ELSE IF lo = hi
    THEN IF Len(run.analyzer.current_batch) >= EventsBatchSize - 1 THEN run
         ELSE [analyzer |-> DeltaAnalyzeFrame(run.analyzer, lo, RunScreen(lo),
                                              lo - 1, "ok").analyzer,
               frames |-> lo]
    ELSE Bind(AnalyzeFrames(run, lo, (lo + hi) \div 2),
              LAMBDA half : AnalyzeFrames(half, (lo + hi) \div 2 + 1, hi))

\* the frames of a long run
AnalyzeFrameRun ==
    /\ long_frames = 0
    /\ \E run \in {AnalyzeFrames([analyzer |-> long_analyzer, frames |-> 0],
                                 1, MaxRunFrames)} :
           /\ long_analyzer' = run.analyzer
           /\ long_frames' = run.frames
    /\ UNCHANGED <<long_ok, long_late>>
    /\ UNCHANGED <<wvars, nvars, svars, dvars, uvars, patvars, pollvars>>

\* analyze_frame on the next frame after the run
AnalyzeLateFrame ==
    /\ long_frames > 0
    /\ long_late < MaxLateFrames
    /\ \E ocr_results \in Screens,
          first \in {e.frame_id : e \in long_analyzer.event_detector.previous_frame_cache} :
       \E written \in {DeltaAnalyzeFrame(long_analyzer, long_frames + 1, ocr_results,
                                         first, "ok")} :
       \E flush \in IF written.flushed THEN FlushOutcomes("events", FALSE) ELSE {"ok"} :
       \E next \in {IF flush = "ok" THEN written
                    ELSE DeltaAnalyzeFrame(long_analyzer, long_frames + 1, ocr_results,
                                           first, flush)} :
           /\ long_analyzer' = next.analyzer
           /\ long_ok' = next.ok
    /\ long_frames' = long_frames + 1
    /\ long_late' = long_late + 1
    /\ UNCHANGED <<wvars, nvars, svars, dvars, uvars, patvars, pollvars>>

LongNext ==
    \/ AnalyzeFrameRun
    \/ AnalyzeLateFrame

(***************************************************************************)
(* An EventCorrelator used on its own: add_* and analyze_correlations      *)
(***************************************************************************)
NoCorrelatorCall == [op |-> "none", now |-> 0, len_before |-> 0, count |-> 0]

\* timestamps, in ticks, that an added event may carry
CorrTimes == {0, 10}

\* the time, in ticks, of an analysis: with TickMs milliseconds to the tick
\* the window of MaxCorrelationWindowMs begins between the two CorrTimes or at
\* the later one
CorrNow == {30}

RECURSIVE AddEventRange(_, _, _, _)
\* add_click_event for the clicks numbered lo..hi of a click history, all of
\* one timestamp, one add_event after the other
AddEventRange(buffer, lo, hi, ts) ==
    IF lo > hi THEN buffer
    ELSE IF lo = hi
    THEN AddEvent(buffer, CorrelationEvent("CursorClick", ts, 560, lo))
    ELSE Bind(AddEventRange(buffer, lo, (lo + hi) \div 2, ts),
              LAMBDA added : AddEventRange(added, (lo + hi) \div 2 + 1, hi, ts))

\* one add_* call.  Events are told apart by their number in the order of
\* insertion, which the model keeps in frame_id (the code gives each a uuid).
CorrAddEvent ==
    /\ \E ts \in CorrTimes :
           /\ corr_added - corr_bursts * CorrBurst < MaxCorrSingles
           /\ corr_buffer' = AddEvent(corr_buffer,
                                      CorrelationEvent("WindowChange", ts, 900,
                                                       corr_added + 1))
           /\ corr_added' = corr_added + 1
           /\ corr_last' = [op |-> "add", now |-> ts, len_before |-> Len(corr_buffer),
                            count |-> 1]
           /\ UNCHANGED corr_bursts
    /\ UNCHANGED <<wvars, nvars, svars, dvars, pvars, scene, applied, frame_cache, cache_frames>>

\* process_frame's feed of a click history of CorrBurst clicks
CorrAddClicks ==
    /\ \E ts \in CorrTimes :
           /\ corr_bursts < MaxCorrBursts
           /\ corr_buffer' = AddEventRange(corr_buffer, corr_added + 1,
                                           corr_added + CorrBurst, ts)
           /\ corr_added' = corr_added + CorrBurst
           /\ corr_bursts' = corr_bursts + 1
           /\ corr_last' = [op |-> "add", now |-> ts, len_before |-> Len(corr_buffer),
                            count |-> CorrBurst]
    /\ UNCHANGED <<wvars, nvars, svars, dvars, pvars, scene, applied, frame_cache, cache_frames>>

\* analyze_correlations(now): clean_old_events(now); the analyses that follow it
\* read the buffer and leave it as it is
CorrAnalyze ==
    /\ \E now \in CorrNow :
           /\ corr_last.op # "analyze"
           /\ corr_buffer' = CleanOldEvents(corr_buffer, now)
           /\ corr_last' = [op |-> "analyze", now |-> now,
                            len_before |-> Len(corr_buffer), count |-> 0]
           /\ UNCHANGED <<corr_added, corr_bursts>>
    /\ UNCHANGED <<wvars, nvars, svars, dvars, pvars, scene, applied, frame_cache, cache_frames>>

CNext ==
    \/ CorrAddEvent
    \/ CorrAddClicks
    \/ CorrAnalyze

(***************************************************************************)
(* An EventCorrelator and its correlation patterns                         *)
(***************************************************************************)
\* CorrelationType, as far as the evaluators produce it
CorrelationKinds == {"CursorToScreenChange", "ScreenToCursorResponse", "ErrorRecovery"}

\* evaluate_temporal_correlation's final_confidence
TemporalConfidence(event1, event2) ==
    LET dt == Abs(Ms(event2.timestamp - event1.timestamp))
        tc == 1000 - (1000 * dt) \div MaxCorrelationWindowMs
        base == (event1.confidence + event2.confidence) \div 2
    IN  Clamp((600 * tc + 400 * base) \div 1000)

\* evaluate_causal_correlation's final_confidence
CausalConfidence(event1, event2) ==
    LET dt == Abs(Ms(event2.timestamp - event1.timestamp))
        strength == CausalStrength(event1.event_type, event2.event_type)
        tf == 1000 - (1000 * dt) \div MaxCorrelationWindowMs
        base == (event1.confidence + event2.confidence) \div 2
    IN  Clamp((500 * strength + 300 * tf + 200 * base) \div 1000)

\* evaluate_causal_correlation's correlation_type
CausalKind(t1, t2) ==
    IF t1 = "CursorClick" THEN "CursorToScreenChange" ELSE "ErrorRecovery"

\* a CorrelationResult: the ids of the two events (their numbers in the order
\* of insertion), the kind, the confidence and the evidence's causal_strength
CorrelationResult(event1, event2, kind, confidence, causal_strength) ==
    [correlated_events |-> <<event1.frame_id, event2.frame_id>>,
     correlation_type |-> kind, confidence |-> confidence,
     causal_strength |-> causal_strength]

\* what analyze_correlations collects from a buffer of two or more events:
\* the temporal pass over the pairs i < j in the order of its two loops, then
\* the causal pass over the adjacent pairs.  The spatial pass pairs a cursor
\* event with a FieldChange event, which is not among the events added here.
CorrelationsFound(buffer) ==
    LET RECURSIVE Temporal(_, _)
        Temporal(i, j) ==
            IF i > Len(buffer) THEN <<>>
            ELSE IF j > Len(buffer) THEN Temporal(i + 1, i + 2)
            ELSE (IF <<i, j>> \in TemporalCorrelations(buffer)
                  THEN <<CorrelationResult(buffer[i], buffer[j],
                             TemporalRule(buffer[i].event_type, buffer[j].event_type),
                             TemporalConfidence(buffer[i], buffer[j]), 700)>>
                  ELSE <<>>) \o Temporal(i, j + 1)
        RECURSIVE Causal(_)
        Causal(i) ==
            IF i >= Len(buffer) THEN <<>>
            ELSE (IF i \in CausalCorrelations(buffer)
                  THEN <<CorrelationResult(buffer[i], buffer[i + 1],
                             CausalKind(buffer[i].event_type, buffer[i + 1].event_type),
                             CausalConfidence(buffer[i], buffer[i + 1]),
                             CausalStrength(buffer[i].event_type,
                                            buffer[i + 1].event_type))>>
                  ELSE <<>>) \o Causal(i + 1)
    IN  Temporal(1, 2) \o Causal(1)

RECURSIVE Gcd(_, _)
Gcd(a, b) == IF b = 0 THEN a ELSE Gcd(b, a % b)

\* a confidence of a pattern is the fraction <<numerator, denominator>> of
\* thousandths, in lowest terms: the f32 of the code without its rounding
Fraction(numerator, denominator) ==
    <<numerator \div Gcd(numerator, denominator),
      denominator \div Gcd(numerator, denominator)>>

\* correlation_patterns before any correlation: a kind without an entry has
\* occurred 0 times
NoPatterns ==
    [kind \in CorrelationKinds |-> [occurrence_count |-> 0, confidence |-> <<0, 1>>]]

RECURSIVE UpdateCorrelationPatternsHalving(_, _)
\* update_correlation_patterns with a confidence that is the mean of the old
\* one and the new correlation's; UpdateCorrelationPatterns is compared with it
UpdateCorrelationPatternsHalving(patterns, correlations) ==
    IF correlations = <<>> THEN patterns
    ELSE LET correlation == Head(correlations)
             pattern == patterns[correlation.correlation_type]
             occurrence_count == pattern.occurrence_count + 1
         IN  UpdateCorrelationPatternsHalving(
                 [patterns EXCEPT ![correlation.correlation_type] =
                     [occurrence_count |-> occurrence_count,
                      confidence |->
                          Fraction(pattern.confidence[1]
                                   + correlation.confidence * pattern.confidence[2],
                                   pattern.confidence[2] * 2)]],
                 Tail(correlations))

RECURSIVE UpdateCorrelationPatterns(_, _)
\* update_correlation_patterns: for each correlation in turn, count it and
\* take (confidence * (count - 1) + its confidence) / count
UpdateCorrelationPatterns(patterns, correlations) ==
    IF correlations = <<>> THEN patterns
    ELSE LET correlation == Head(correlations)
             pattern == patterns[correlation.correlation_type]
             occurrence_count == pattern.occurrence_count + 1
         IN  UpdateCorrelationPatterns(
                 [patterns EXCEPT ![correlation.correlation_type] =
                     [occurrence_count |-> occurrence_count,
                      confidence |->
                          Fraction(pattern.confidence[1] * (occurrence_count - 1)
                                   + correlation.confidence * pattern.confidence[2],
                                   pattern.confidence[2] * occurrence_count)]],
                 Tail(correlations))

\* the kinds of event added to this correlator
PatternEventKinds == {"CursorClick", "WindowChange", "CursorMovement"}

\* the times, in ticks, of its analyses
PatternNow == {10, 30}

\* one add_* call
PatAddEvent ==
    /\ corr_bursts = 0
    /\ corr_added < MaxPatEvents
    /\ \E type \in PatternEventKinds, ts \in CorrTimes :
           corr_buffer' = AddEvent(corr_buffer,
                                   CorrelationEvent(type, ts, 900, corr_added + 1))
    /\ corr_added' = corr_added + 1
    /\ UNCHANGED <<patvars, pollvars, longvars>>
    /\ UNCHANGED <<wvars, nvars, svars, dvars, corr_bursts, corr_last, scene, applied,
                   frame_cache, cache_frames>>

\* analyze_correlations(now)
PatAnalyze ==
    /\ corr_bursts = 0
    /\ corr_analyses < MaxPatAnalyses
    /\ \E now \in PatternNow :
       \E cleaned \in {CleanOldEvents(corr_buffer, now)} :
       \E correlations \in {IF Len(cleaned) < 2 THEN <<>> ELSE CorrelationsFound(cleaned)} :
           /\ corr_buffer' = cleaned
           /\ corr_patterns' = UpdateCorrelationPatterns(corr_patterns, correlations)
           /\ corr_returned' = corr_returned \o correlations
    /\ corr_analyses' = corr_analyses + 1
    /\ UNCHANGED <<pollvars, longvars>>
    /\ UNCHANGED <<wvars, nvars, svars, dvars, corr_added, corr_bursts, corr_last, scene,
                   applied, frame_cache, cache_frames>>

PNext ==
    \/ PatAddEvent
    \/ PatAnalyze

(***************************************************************************)
(* A NavigationDetector polled for the frontmost window                    *)
(***************************************************************************)
NoPending == [some |-> FALSE, value_from |-> "none", value_to |-> "none", later_polls |-> 0]
NoEmitted == [some |-> FALSE, value_from |-> "none", value_to |-> "none"]

\* one detect_window_changes call at the time of the clock.  poll_emitted
\* keeps value_from and value_to of the event it returns, which are read from
\* the stored state and from the polled one.
PollWindow ==
    /\ nav_frames < MaxPolls
    /\ \E probe \in WindowProbes :
       \E r \in {DetectWindowChanges(previous_window_state, probe, nav_clock, nav_clock,
                                     nav_frames + 1)} :
           LET early == Ms(nav_clock - previous_window_state.timestamp)
                            < MinDetectionIntervalMs
               switched == /\ probe.ok
                           /\ previous_window_state.some
                           /\ probe.app # previous_window_state.app_name
               emitted == IF r.events # <<>>
                          THEN [some |-> TRUE,
                                value_from |-> previous_window_state.app_name,
                                value_to |-> r.state.app_name]
                          ELSE NoEmitted
           IN  /\ previous_window_state' = r.state
               /\ poll_emitted' = emitted
               /\ poll_pending' =
                      IF switched /\ early
                      THEN \* a change first seen before the interval has passed
                           [some |-> TRUE,
                            value_from |-> previous_window_state.app_name,
                            value_to |-> probe.app, later_polls |-> 0]
                      ELSE IF ~poll_pending.some \/ ~probe.ok THEN poll_pending
                      ELSE IF switched THEN NoPending  \* the window changed again
                      ELSE IF /\ emitted.some
                              /\ emitted.value_from = poll_pending.value_from
                              /\ emitted.value_to = poll_pending.value_to
                      THEN NoPending                    \* reported
                      ELSE IF early THEN poll_pending
                      ELSE [poll_pending EXCEPT !.later_polls = @ + 1]
    /\ nav_frames' = nav_frames + 1
    /\ UNCHANGED <<previous_tab_state, focus_history, last_position, position_history,
                   click_history, event_buffer, event_writer_batch, metrics, nav_clock,
                   nav_halted, nav_failed_frames, nav_last>>
    /\ UNCHANGED <<wvars, svars, dvars, uvars, patvars, longvars>>

\* the wall clock advances by one tick between two polls
PollTick ==
    /\ nav_clock < MaxPollClock
    /\ nav_clock' = nav_clock + 1
    /\ UNCHANGED <<previous_window_state, previous_tab_state, focus_history,
                   last_position, position_history, click_history, event_buffer,
                   event_writer_batch, metrics, nav_frames, nav_halted,
                   nav_failed_frames, nav_last>>
    /\ UNCHANGED <<wvars, svars, dvars, uvars, pvars>>

PollNext ==
    \/ PollWindow
    \/ PollTick

(***************************************************************************)
(* SceneDetector::detect_scene_changes                                     *)
(***************************************************************************)
\* SceneDetectionConfig::default, ssim and entropy in thousandths
SsimThreshold == 800
PhashDistanceThreshold == 10
EntropyThreshold == 100

\* Decoding and resampling are the image crate's.  A decoded image is given by
\* what the detector's measurements read from it: the luma grid that
\* calculate_ssim compares (four pixels stand for the 64 x 64 grid), the bits
\* that calculate_phash sets, and the histogram entropy in thousandths of a bit.
Image(gray, hash, entropy) == [gray |-> gray, hash |-> hash, entropy |-> entropy]

\* the keyframe files of the model; "corrupt" is a file that image::open rejects
KeyframeFiles ==
    {"page", "page_edited", "page_scrolled", "other_page", "page_shuffled",
     "page_dimmed", "corrupt"}

\* load_image
LoadImage(path) ==
    CASE path = "page"          -> [ok |-> TRUE, image |-> Image(<<50, 50, 150, 150>>, 32..63, 1000)]
      [] path = "page_edited"   -> [ok |-> TRUE, image |-> Image(<<50, 50, 150, 152>>, 32..63, 1500)]
      [] path = "page_scrolled" -> [ok |-> TRUE, image |-> Image(<<50, 60, 150, 150>>, 24..55, 1000)]
      [] path = "other_page"    -> [ok |-> TRUE, image |-> Image(<<150, 150, 50, 50>>, 0..31, 1000)]
      [] path = "page_shuffled" -> [ok |-> TRUE, image |-> Image(<<50, 150, 50, 150>>, 32..63, 2000)]
      [] path = "page_dimmed"   -> [ok |-> TRUE, image |-> Image(<<10, 10, 40, 40>>, 32..63, 1000)]
      [] OTHER                  -> [ok |-> FALSE, image |-> Image(<<>>, {}, 0)]

RECURSIVE SumOver(_, _, _)
\* the sum of F(i) for i in lo..hi
SumOver(F(_), lo, hi) == IF lo > hi THEN 0 ELSE F(lo) + SumOver(F, lo + 1, hi)

\* calculate_ssim in thousandths.  With n pixels, sums stand for the means
\* (sum = n * mean) and both factors of the quotient are scaled alike:
\* (2 m1 m2 + c1) / (m1^2 + m2^2 + c1) by n^2, and
\* (2 covar + c2) / (var1 + var2 + c2) by n^2 (n - 1);
\* c1 = (0.01 * 255)^2 = 6.5025 and c2 = (0.03 * 255)^2 = 58.5225.
CalculateSsim(img1, img2) ==
    LET n == Len(img1.gray)
        sum1 == SumOver(LAMBDA i : img1.gray[i], 1, n)
        sum2 == SumOver(LAMBDA i : img2.gray[i], 1, n)
        var1 == SumOver(LAMBDA i : (n * img1.gray[i] - sum1) * (n * img1.gray[i] - sum1), 1, n)
        var2 == SumOver(LAMBDA i : (n * img2.gray[i] - sum2) * (n * img2.gray[i] - sum2), 1, n)
        covar == SumOver(LAMBDA i : (n * img1.gray[i] - sum1) * (n * img2.gray[i] - sum2), 1, n)
        c1 == (65025 * n * n) \div 10000
        c2 == (585225 * n * n * (n - 1)) \div 10000
        luminance == ((2 * sum1 * sum2 + c1) * 1000) \div (sum1 * sum1 + sum2 * sum2 + c1)
        structure == ((2 * covar + c2) * 1000) \div (var1 + var2 + c2)
    IN  (luminance * structure) \div 1000

\* hamming_distance: the bits set in exactly one of the two hashes
HammingDistance(hash1, hash2) == Cardinality((hash1 \ hash2) \cup (hash2 \ hash1))

\* a classification that looks at the hash distance before the similarity;
\* ClassifySceneChange is compared with it
ClassifySceneChangeDistanceFirst(ssim_score, phash_distance, entropy_delta) ==
    IF phash_distance > PhashDistanceThreshold THEN "Motion"
    ELSE IF ssim_score < SsimThreshold
    THEN IF phash_distance > PhashDistanceThreshold * 2 THEN "Cut"
         ELSE IF entropy_delta > EntropyThreshold * 2 THEN "ContentChange"
         ELSE "Fade"
    ELSE IF entropy_delta > EntropyThreshold THEN "ContentChange"
    ELSE "none"

\* classify_scene_change; "none" is None
ClassifySceneChange(ssim_score, phash_distance, entropy_delta) ==
    IF ssim_score < SsimThreshold
    THEN IF phash_distance > PhashDistanceThreshold * 2 THEN "Cut"
         ELSE IF entropy_delta > EntropyThreshold * 2 THEN "ContentChange"
         ELSE "Fade"
    ELSE IF phash_distance > PhashDistanceThreshold THEN "Motion"
    ELSE IF entropy_delta > EntropyThreshold THEN "ContentChange"
    ELSE "none"

\* calculate_confidence in thousandths
CalculateConfidence(ssim_score, phash_distance, entropy_delta) ==
    LET ssim_confidence == 1000 - ssim_score
        phash_confidence == IF phash_distance < 64 THEN (phash_distance * 1000) \div 64 ELSE 1000
        entropy_confidence == IF entropy_delta < 8000 THEN entropy_delta \div 8 ELSE 1000
        weighted == (ssim_confidence * 5 + phash_confidence * 3 + entropy_confidence * 2) \div 10
    IN  IF weighted < 1000 THEN weighted ELSE 1000

NoSceneCall ==
    [phase |-> "idle", keyframes |-> <<>>, index |-> 0,
     previous_image |-> [some |-> FALSE, image |-> Image(<<>>, {}, 0)],
     scene_changes |-> <<>>,
     \* history: the keyframe the comparator was loaded from, the keyframes that
     \* failed to load, and every comparison made with its outcome
     previous_index |-> -1, skipped |-> {}, compared |-> <<>>]

\* every slice of at most MaxKeyframes keyframes
KeyframeLists == UNION {[1..n -> KeyframeFiles] : n \in 0..MaxKeyframes}

\* detect_scene_changes is called: fewer than two keyframes return at once
DetectSceneChanges ==
    /\ scene.phase = "idle"
    /\ \E keyframes \in KeyframeLists :
           scene' = [NoSceneCall EXCEPT
                        !.keyframes = keyframes,
                        !.phase = IF Len(keyframes) < 2 THEN "returned" ELSE "loop"]
    /\ UNCHANGED <<wvars, nvars, svars, dvars, pvars, corr_buffer, corr_added, corr_bursts,
                   corr_last, applied, frame_cache, cache_frames>>

\* the loop's body with a load failure that also drops the comparator;
\* SceneTurn is compared with it
SceneTurnDroppingComparator(s) ==
    LET index == s.index
        loaded == LoadImage(s.keyframes[index + 1])
        current_image == loaded.image
        prev_img == s.previous_image.image
        ssim_score == CalculateSsim(prev_img, current_image)
        phash_distance == HammingDistance(prev_img.hash, current_image.hash)
        entropy_delta == Abs(current_image.entropy - prev_img.entropy)
        change_type == ClassifySceneChange(ssim_score, phash_distance, entropy_delta)
    IN  IF ~loaded.ok
        THEN [s EXCEPT !.index = index + 1, !.skipped = @ \cup {index},
                        !.previous_image = NoSceneCall.previous_image,
                        !.previous_index = -1]
        ELSE [s EXCEPT
                 !.index = index + 1,
                 !.scene_changes =
                     IF s.previous_image.some /\ change_type # "none"
                     THEN Append(@, [frame_index |-> index,
                                     change_type |-> change_type,
                                     confidence |->
                                         CalculateConfidence(ssim_score, phash_distance,
                                                             entropy_delta),
                                     ssim_score |-> ssim_score,
                                     phash_distance |-> phash_distance,
                                     entropy_delta |-> entropy_delta])
                     ELSE @,
                 !.compared =
                     IF s.previous_image.some
                     THEN Append(@, [frame_index |-> index,
                                     against |-> s.previous_index,
                                     ssim_score |-> ssim_score,
                                     phash_distance |-> phash_distance,
                                     entropy_delta |-> entropy_delta,
                                     change_type |-> change_type])
                     ELSE @,
                 !.previous_image = [some |-> TRUE, image |-> current_image],
                 !.previous_index = index]

\* the body of the loop over the keyframes, for the keyframe at s.index
SceneTurn(s) ==
    LET index == s.index
        loaded == LoadImage(s.keyframes[index + 1])
        current_image == loaded.image
        prev_img == s.previous_image.image
        ssim_score == CalculateSsim(prev_img, current_image)
        phash_distance == HammingDistance(prev_img.hash, current_image.hash)
        entropy_delta == Abs(current_image.entropy - prev_img.entropy)
        change_type == ClassifySceneChange(ssim_score, phash_distance, entropy_delta)
    IN  IF ~loaded.ok
        THEN \* warn! and continue
             [s EXCEPT !.index = index + 1, !.skipped = @ \cup {index}]
        ELSE [s EXCEPT
                 !.index = index + 1,
                 !.scene_changes =
                     IF s.previous_image.some /\ change_type # "none"
                     THEN Append(@, [frame_index |-> index,
                                     change_type |-> change_type,
                                     confidence |->
                                         CalculateConfidence(ssim_score, phash_distance,
                                                             entropy_delta),
                                     ssim_score |-> ssim_score,
                                     phash_distance |-> phash_distance,
                                     entropy_delta |-> entropy_delta])
                     ELSE @,
                 !.compared =
                     IF s.previous_image.some
                     THEN Append(@, [frame_index |-> index,
                                     against |-> s.previous_index,
                                     ssim_score |-> ssim_score,
                                     phash_distance |-> phash_distance,
                                     entropy_delta |-> entropy_delta,
                                     change_type |-> change_type])
                     ELSE @,
                 !.previous_image = [some |-> TRUE, image |-> current_image],
                 !.previous_index = index]

\* one turn of the loop over the keyframes
SceneLoop ==
    /\ scene.phase = "loop"
    /\ scene.index < Len(scene.keyframes)
    /\ scene' = SceneTurn(scene)
    /\ UNCHANGED <<wvars, nvars, svars, dvars, pvars, corr_buffer, corr_added, corr_bursts,
                   corr_last, applied, frame_cache, cache_frames>>

\* the loop is over: Ok(scene_changes)
SceneReturn ==
    /\ scene.phase = "loop"
    /\ scene.index = Len(scene.keyframes)
    /\ scene' = [scene EXCEPT !.phase = "returned"]
    /\ UNCHANGED <<wvars, nvars, svars, dvars, pvars, corr_buffer, corr_added, corr_bursts,
                   corr_last, applied, frame_cache, cache_frames>>

SceneNext ==
    \/ DetectSceneChanges
    \/ SceneLoop
    \/ SceneReturn

(***************************************************************************)
(* Single calls of the detectors' functions                                *)
(***************************************************************************)
NoApplication == [function |-> "none", input |-> <<>>, result |-> <<>>]

\* words an OCR result may hold
OcrWords ==
    {<<"a", "b", "o", "r", "t">>, <<"F", "a", "t", "a", "l">>, <<"c", "r", "a", "s", "h">>,
     <<"e", "r", "r", "o", "r">>, <<"O", "K">>, <<"s", "a", "v", "e", "d">>,
     <<"d", "i", "s", "k">>, <<"A", "b", "o", "u", "t">>}

\* the texts of the OCR results: one word, or two words with a blank between
OcrTexts == OcrWords \cup {w1 \o <<" ">> \o w2 : w1 \in OcrWords, w2 \in OcrWords}

\* detect_errors_and_modals' call of analyze_text_for_errors_modals for one
\* OCR result
ApplyAnalyzeText ==
    /\ applied = NoApplication
    /\ \E text \in OcrTexts, confidence \in {700, 950} :
           applied' = [function |-> "analyze_text_for_errors_modals",
                       input |-> <<text, confidence>>,
                       result |-> AnalyzeTextForErrorsModals(1,
                                      [text |-> text, confidence |-> confidence,
                                       roi |-> [x |-> 1600, y |-> 800, width |-> 600,
                                                height |-> 200]])]
    /\ UNCHANGED <<wvars, nvars, svars, dvars, pvars, corr_buffer, corr_added, corr_bursts,
                   corr_last, scene, frame_cache, cache_frames>>

\* bounding boxes, in half pixels: the second overlaps the first by exactly
\* MinIouThreshold (240 of 800), the third by more (480 of 560), the fourth
\* overlaps none
RegionBoxes ==
    {[x |-> 0, y |-> 0, width |-> 26, height |-> 20],
     [x |-> 14, y |-> 0, width |-> 26, height |-> 20],
     [x |-> 2, y |-> 0, width |-> 26, height |-> 20],
     [x |-> 200, y |-> 200, width |-> 26, height |-> 20]}

\* the lists of regions of a frame: at most MaxRegions OCR results
RegionLists ==
    UNION {[1..n -> {[text |-> <<"a">>, roi |-> b, confidence |-> 900] : b \in RegionBoxes}]
              : n \in 0..MaxRegions}

\* perform_delta_analysis' calls of match_regions and find_new_regions on the
\* regions of the current and of the previous frame
ApplyRegionMatching ==
    /\ applied = NoApplication
    /\ \E current \in RegionLists, previous \in RegionLists :
           applied' = [function |-> "match_regions",
                       input |-> <<current, previous>>,
                       result |-> <<MatchRegions(current, previous),
                                    FindNewRegions(current, previous)>>]
    /\ UNCHANGED <<wvars, nvars, svars, dvars, pvars, corr_buffer, corr_added, corr_bursts,
                   corr_last, scene, frame_cache, cache_frames>>

\* avg_frame_rate of the video stream: numerator and denominator
FrameRates == {<<30, 1>>, <<60, 1>>, <<30000, 1001>>, <<10, 1>>, <<1, 2>>}

\* extraction_fps in tenths of a frame per second, within (0, 30]
ExtractionRates == {5, 20, 150, 300}

\* (source_fps / extraction_fps).round() as usize: the quotient of the two
\* rates, rounded to the nearest integer with halves rounded up
FrameInterval(frame_rate, extraction_fps) ==
    LET numerator == frame_rate[1] * 10
        denominator == frame_rate[2] * extraction_fps
    IN  (2 * numerator + denominator) \div (2 * denominator)

\* extract_keyframes' frame interval and its test of the first decoded frame,
\* frame_count % frame_interval == 0 with frame_count 0
ApplyFrameInterval ==
    /\ applied = NoApplication
    /\ \E frame_rate \in FrameRates, extraction_fps \in ExtractionRates :
       \E frame_interval \in {FrameInterval(frame_rate, extraction_fps)} :
           applied' = [function |-> "frame_interval",
                       input |-> <<frame_rate, extraction_fps>>,
                       result |-> <<frame_interval,
                                    IF frame_interval = 0 THEN "panic" ELSE "selected">>]
    /\ UNCHANGED <<wvars, nvars, svars, dvars, pvars, corr_buffer, corr_added, corr_bursts,
                   corr_last, scene, frame_cache, cache_frames>>

FNext ==
    \/ ApplyAnalyzeText
    \/ ApplyRegionMatching
    \/ ApplyFrameInterval

(***************************************************************************)
(* An EventDetector's frame cache over a long run of frames                *)
(***************************************************************************)
\* analyze_frame's call of cache_frame_results for the next frame, frames
\* being numbered as they are analysed; when the map is full, the key that
\* keys().next() yields is any key of the HashMap
CacheNextFrame ==
    /\ cache_frames < MaxCacheRun
    /\ \E first \in {e.frame_id : e \in frame_cache} \cup {0} :
           /\ first = 0 <=> frame_cache = {}
           /\ frame_cache' = CacheFrameResults(frame_cache, first, cache_frames + 1,
                                               <<[text |-> <<"a">>, confidence |-> 900,
                                                  roi |-> [x |-> 0, y |-> 0, width |-> 26,
                                                           height |-> 20]]>>)
    /\ cache_frames' = cache_frames + 1
    /\ UNCHANGED <<wvars, nvars, svars, dvars, pvars, corr_buffer, corr_added, corr_bursts,
                   corr_last, scene, applied>>

KNext ==
    \/ CacheNextFrame

(***************************************************************************)
(* Properties of the event detector and the delta analyzer                 *)
(***************************************************************************)
MaxOf(S) == CHOOSE m \in S : \A n \in S : n <= m

\* C16: when the frame cache holds several frames, the frame taken as the
\* previous frame for region matching and diffing is the most recently
\* inserted one, that of the highest frame number in the cache.
C16_PreviousIsMostRecent ==
    \A r \in Runs :
        (Cardinality(det[r].cached) >= 2 /\ det[r].previous # {})
            => det[r].previous = {MaxOf(det[r].cached)}

EventSignature(e) == <<e.event_type, e.target, e.value_from, e.value_to>>

\* C17: two runs fed the same sequence of frames under the same
\* configuration emit, frame by frame, events of identical kind, target,
\* value_from and value_to.
C17_DetectionDeterministic ==
    [k \in 1..Len(det[1].events) |-> EventSignature(det[1].events[k])]
        = [k \in 1..Len(det[2].events) |-> EventSignature(det[2].events[k])]

\* C18: every DetectedEvent, emitted by analyze_frame or returned by a query
\* of the event store, names at least one evidence frame.
C18_EvidenceNonEmpty ==
    \A r \in Runs :
        /\ \A k \in 1..Len(det[r].events) :
               Len(det[r].events[k].evidence_frames) >= 1
        /\ \A k \in 1..Len(det[r].query.events) :
               Len(det[r].query.events[k].evidence_frames) >= 1

ConfidenceInRange(events) ==
    \A k \in 1..Len(events) : events[k].confidence \in 0..1000

C6_FinalizeBeforeExit ==
    (svc_pc = "exited" /\ svc_shutdown) => (svc_finalized /\ csv_batch = <<>>)

ExtractionFails(f) == ExtractKeyframes(f).error \in {"CorruptedVideo", "UnsupportedFormat"}

\* C7: when the extraction of a segment fails with CorruptedVideo or
\* UnsupportedFormat, the failure is logged and every segment enqueued after
\* it is still processed (or, failing itself, logged and skipped), unless the
\* process is shut down first.
C7_FailedSegmentSkipped ==
    \A i \in 1..MaxSegments : \A j \in 1..MaxSegments :
        (i < j /\ j <= Len(svc_enqueued) /\ ExtractionFails(svc_enqueued[i]))
            ~> \/ svc_pc = "exited"
               \/ (i \in svc_logged /\ j \in svc_processed \cup svc_logged)


(***************************************************************************)
(* Properties of the columnar writers                                      *)
(***************************************************************************)
Range(s) == {s[i] : i \in 1..Len(s)}

\* the data files: entries at a final path <kind>_<timestamp>.parquet
FinalPaths == {p \in Paths : p[2] = "parquet"}
DataFiles(dir) == {p \in FinalPaths : dir[p].present}

\* no trace of a failed flush: every entry is a closed plaintext data file
CleanDir(dir) == \A p \in Paths : dir[p].present => (p \in FinalPaths /\ Readable(dir[p]))

\* C1: once every written row has been flushed successfully, a query with
\* threshold confidence >= 0 returns exactly as many rows as were written
\* (no row lost, none duplicated).
C1_RoundTrip ==
    (w_query.asked /\ w_query.min = 0 /\ current_batch = <<>> /\ CleanDir(output_dir))
        => (w_query.ok /\ Len(w_query.rows) = Len(w_written))

\* C2: a flush that fails leaves the in-flight batch unchanged, and the
\* successful flush that retries it persists exactly the rows of that batch.
C2_BatchRetained ==
    /\ (w_last.flushed /\ ~w_last.ok) => current_batch = w_last.pre_batch
    /\ (w_last.flushed /\ w_last.ok /\ w_last.retry_of # <<>>)
          => /\ output_dir[w_last.path].complete
             /\ output_dir[w_last.path].rows = w_last.retry_of
             /\ current_batch = <<>>

\* a flush failed, and the flush that has just returned persisted its batch
C2_Witness ==
    /\ w_last.flushed /\ w_last.ok /\ w_last.retry_of # <<>>
    /\ w_last.op \in {"flush", "finalize"}

\* C3: each flush of a non-empty batch writes one new file: after n flushes
\* the output directory holds n data files.
C3_OneFilePerFlush ==
    CleanDir(output_dir) => Cardinality(DataFiles(output_dir)) = w_flushes

\* C4: after finalize returns Ok the in-memory batch is empty and every row
\* written before the call is in an output file.
C4_FinalizePersists ==
    (w_last.op = "finalize" /\ w_last.ok)
        => /\ current_batch = <<>>
           /\ \A i \in 1..Len(w_written) :
                 \E p \in FinalPaths :
                     /\ output_dir[p].complete
                     /\ w_written[i] \in Range(output_dir[p].rows)

\* C5: every file present at a final output path is completely written, and
\* a failed flush leaves nothing of its own at its final path.
C5_FullFileOrNone ==
    /\ \A p \in FinalPaths : output_dir[p].present => output_dir[p].complete
    /\ (w_last.flushed /\ ~w_last.ok) => output_dir[w_last.path] = w_last.pre_file

(***************************************************************************)
(* Properties of the OCR writer's queries                                  *)
(***************************************************************************)
QueryTemps(dir) == {p \in Paths : p[2] = "query.tmp.parquet" /\ dir[p].present}

\* every stored file is a complete, encrypted data file
AllEncryptedData(dir) ==
    /\ GetParquetFiles(dir) # {}
    /\ \A p \in GetParquetFiles(dir) :
          p \in FinalPaths /\ dir[p].complete /\ dir[p].encrypted

\* C11: when a query fails, the output directory holds exactly the files it
\* held before the query.
C11_FailedQueryLeavesDirectory ==
    (w_fquery.asked /\ ~w_fquery.ok) => GetParquetFiles(output_dir) = w_fquery.before

\* C12: after a query on an encryption-enabled writer has returned, no
\* decrypted temporary that the query created is left on disk.
C12_QueryTemporariesRemoved ==
    (w_fquery.asked /\ encryption_enabled)
        => QueryTemps(output_dir) \subseteq w_fquery.before

\* C13: with encryption enabled and the data stored encrypted, a query returns
\* the rows it would return over the same data stored in plaintext: the query
\* by confidence succeeds with the selected rows of all files, and so does a
\* query by frame id that succeeds.
C13_DecryptionTransparent ==
    /\ (w_query.asked /\ encryption_enabled /\ AllEncryptedData(output_dir))
          => /\ w_query.ok
             /\ w_query.rows = OrderByConfidenceDesc(
                    SelectSeq2(ScanFiles(output_dir, GetParquetFiles(output_dir)),
                               w_query.min))
    /\ (w_fquery.asked /\ w_fquery.ok /\ encryption_enabled
           /\ AllEncryptedData(output_dir))
          => w_fquery.rows = SelectFrame(
                 RowsOfFiles(output_dir, Listing(GetParquetFiles(output_dir))),
                 w_fquery.frame)

\* C14: when a stored file cannot be decrypted during a query, the query
\* still succeeds and returns the matching rows of all the other stored files.
C14_UndecryptableFileExcluded ==
    (w_fquery.asked /\ encryption_enabled /\ w_fquery.undecryptable # {})
        => /\ w_fquery.ok
           /\ w_fquery.rows = SelectFrame(
                  RowsOfFiles(output_dir,
                              Listing(w_fquery.before \ w_fquery.undecryptable)),
                  w_fquery.frame)

\* the last call returned a write-time error to its caller
WriteFailed == w_last.op # "none" /\ w_last.flushed /\ ~w_last.ok

\* C15: when writing a batch fails, the write is attempted once more before
\* the error is returned: a call that returns a write error made two attempts.
C15_WriteRetriedOnce == WriteFailed => w_last.attempts = 2

(***************************************************************************)
(* Properties of the navigation service                                    *)
(***************************************************************************)
ProbeFailed(f) == f.window_failed \/ f.tab_failed \/ f.focus_failed \/ f.cursor_failed

FailedProbes(f) ==
    (IF f.window_failed THEN 1 ELSE 0) + (IF f.tab_failed THEN 1 ELSE 0)
    + (IF f.focus_failed THEN 1 ELSE 0) + (IF f.cursor_failed THEN 1 ELSE 0)

\* C8: a failing window, tab, focus or cursor probe never halts the frame
\* loop: process_frame returns Ok for every frame, whatever its probes did,
\* so the loop never stops early and later frames are processed.
C8_ProbeFailureNeverHalts ==
    /\ ~nav_halted
    /\ nav_last.called => nav_last.ok

\* a frame processed with Ok after an earlier frame in which a probe failed,
\* with a probe failing in this frame as well
C8_Witness ==
    /\ nav_last.called /\ nav_last.ok /\ ProbeFailed(nav_last)
    /\ \E f \in nav_failed_frames : f < nav_last.frame

\* C9: every probe call that fails while a frame is processed increments the
\* metrics error counter.
C9_EveryProbeFailureCounted ==
    nav_last.called
        => metrics.error_count >= nav_last.errors_before + FailedProbes(nav_last)

\* C10: when the window or the tab probe fails for a frame, the frame yields
\* no navigation event of that kind, the stored previous state is unchanged
\* and no window-change or tab-change event is handed to the correlator for
\* that frame.
C10_ProbeFailureIsNoChange ==
    /\ (nav_last.called /\ nav_last.window_failed)
          => /\ "window" \notin Range(nav_last.targets)
             /\ previous_window_state = nav_last.window_before
             /\ "WindowChange" \notin Range(nav_last.fed)
    /\ (nav_last.called /\ nav_last.tab_failed)
          => /\ "tab" \notin Range(nav_last.targets)
             /\ previous_tab_state = nav_last.tab_before
             /\ "TabChange" \notin Range(nav_last.fed)

\* C20: every temporal correlation that analyze_correlations returns for a
\* frame names a pair (e1, e2) of the table of meaningful kinds in which e1's
\* timestamp strictly precedes e2's and 0 < e2.ts - e1.ts <= the window.
C20_TemporalPairsOrdered ==
    nav_last.called =>
        \A pair \in TemporalCorrelations(event_buffer) :
            LET e1 == event_buffer[pair[1]]
                e2 == event_buffer[pair[2]]
                gap == Ms(e2.timestamp - e1.timestamp)
            IN  /\ 0 < gap
                /\ gap <= MaxCorrelationWindowMs
                /\ TemporalRule(e1.event_type, e2.event_type) # "none"

(***************************************************************************)
(* Properties of the correlator's buffer                                   *)
(***************************************************************************)
\* the buffer holds events in the order of their insertion, none missing in
\* between
InInsertionOrder ==
    \A i \in 1..(Len(corr_buffer) - 1) :
        corr_buffer[i + 1].frame_id = corr_buffer[i].frame_id + 1

\* C22: the correlator's buffer never holds more than its capacity; an add_*
\* that would exceed it drops the earliest-inserted events, so that the buffer
\* holds the most recently added events, in insertion order.
C22_BufferBoundedKeepsNewest ==
    /\ Len(corr_buffer) <= MaxBufferSize
    /\ InInsertionOrder
    /\ corr_last.op = "add" =>
           /\ Len(corr_buffer) =
                  IF corr_last.len_before + corr_last.count < MaxBufferSize
                  THEN corr_last.len_before + corr_last.count ELSE MaxBufferSize
           /\ corr_buffer[Len(corr_buffer)].frame_id = corr_added

\* an add_* that found the buffer too full has just returned: the buffer is
\* full and begins with the event added MaxBufferSize - 1 events before the last
C22_CapacityExceeded ==
    /\ corr_last.op = "add"
    /\ corr_last.len_before + corr_last.count > MaxBufferSize
    /\ Len(corr_buffer) = MaxBufferSize
    /\ corr_buffer[1].frame_id = corr_added - MaxBufferSize + 1
    /\ corr_buffer[1].frame_id > 1

\* C27: after every insertion through an add_* entry point the buffer is
\* sorted by timestamp, non-decreasing.
C27_BufferSortedByTimestamp ==
    \A i \in 1..(Len(corr_buffer) - 1) :
        corr_buffer[i].timestamp <= corr_buffer[i + 1].timestamp

\* C21: when analyze_correlations(now) or clean_old_events(now) has returned, no
\* event older than now - max_correlation_window_ms remains in the buffer,
\* whatever the order of insertion, and every event inside the window is kept.
C21_EvictionByAgeComplete ==
    corr_last.op = "analyze" =>
        \A i \in 1..Len(corr_buffer) :
            ~(Ms(corr_buffer[i].timestamp) < Ms(corr_last.now) - MaxCorrelationWindowMs)

(***************************************************************************)
(* Properties of the scene detector                                        *)
(***************************************************************************)
\* the kind that the ordered rules give a pair of keyframes; the first rule
\* that applies decides
FirstMatchingRule(ssim, phash_distance, entropy_delta) ==
    LET rules == <<
            <<ssim < SsimThreshold /\ phash_distance > 2 * PhashDistanceThreshold, "Cut">>,
            <<ssim < SsimThreshold /\ entropy_delta > 2 * EntropyThreshold, "ContentChange">>,
            <<ssim < SsimThreshold, "Fade">>,
            <<phash_distance > PhashDistanceThreshold, "Motion">>,
            <<entropy_delta > EntropyThreshold, "ContentChange">>,
            <<TRUE, "none">> >>
        first == CHOOSE k \in 1..Len(rules) :
                     rules[k][1] /\ \A j \in 1..(k - 1) : ~rules[j][1]
    IN  rules[first][2]

\* C23: scene classification applies its rules in order and the first match
\* wins: Cut, ContentChange, Fade under a low similarity, then Motion, then
\* ContentChange; when no rule applies no SceneChange is emitted for the pair.
C23_FirstMatchingRuleWins ==
    /\ \A k \in 1..Len(scene.compared) :
           scene.compared[k].change_type =
               FirstMatchingRule(scene.compared[k].ssim_score,
                                 scene.compared[k].phash_distance,
                                 scene.compared[k].entropy_delta)
    /\ [k \in 1..Len(scene.scene_changes) |-> <<scene.scene_changes[k].frame_index,
                                                 scene.scene_changes[k].change_type>>]
         = [k \in 1..Len(SelectSeq(scene.compared, LAMBDA c : c.change_type # "none")) |->
               <<SelectSeq(scene.compared, LAMBDA c : c.change_type # "none")[k].frame_index,
                 SelectSeq(scene.compared, LAMBDA c : c.change_type # "none")[k].change_type>>]

\* a call has returned in which an earlier rule decided a pair that a later
\* rule fits as well: a Fade whose hash distance exceeds the Motion threshold
\* and a Motion whose entropy delta exceeds the ContentChange threshold
C23_EarlierRuleDecided ==
    /\ scene.phase = "returned"
    /\ \E c \in Range(scene.scene_changes) :
           /\ c.change_type = "Fade"
           /\ c.phash_distance > PhashDistanceThreshold
    /\ \E c \in Range(scene.scene_changes) :
           /\ c.change_type = "Motion"
           /\ c.entropy_delta > EntropyThreshold

\* the last keyframe before position index that could be loaded, -1 if none
LastLoadedBefore(keyframes, index) ==
    LET loaded == {j \in 0..(index - 1) : LoadImage(keyframes[j + 1]).ok}
    IN  IF loaded = {} THEN -1 ELSE CHOOSE j \in loaded : \A i \in loaded : i <= j

\* C24: a keyframe whose image cannot be loaded is skipped without an error
\* being returned, and the next loadable keyframe is compared against the last
\* keyframe that was loaded: the failure leaves the comparator as it was.
C24_UnloadableKeyframeSkipped ==
    /\ \A k \in 1..Len(scene.compared) :
           LET c == scene.compared[k]
           IN  /\ c.frame_index \notin scene.skipped
               /\ c.against = LastLoadedBefore(scene.keyframes, c.frame_index)
               /\ c.against >= 0
               /\ c.ssim_score =
                      CalculateSsim(LoadImage(scene.keyframes[c.against + 1]).image,
                                    LoadImage(scene.keyframes[c.frame_index + 1]).image)
    /\ scene.previous_index = LastLoadedBefore(scene.keyframes, scene.index)
    /\ (scene.phase = "returned" /\ Len(scene.keyframes) >= 2) =>
           /\ scene.index = Len(scene.keyframes)
           /\ scene.skipped = {j \in 0..(Len(scene.keyframes) - 1) :
                                  ~LoadImage(scene.keyframes[j + 1]).ok}
           /\ {c.frame_index : c \in Range(scene.compared)} =
                  {j \in 0..(Len(scene.keyframes) - 1) :
                      /\ LoadImage(scene.keyframes[j + 1]).ok
                      /\ LastLoadedBefore(scene.keyframes, j) >= 0}

\* a call has returned that skipped a keyframe between two loadable ones and
\* reported the change between those two
C24_ComparedAcrossSkipped ==
    /\ scene.phase = "returned"
    /\ \E c \in Range(scene.scene_changes), skipped \in scene.skipped :
           /\ c.frame_index > skipped
           /\ \E d \in Range(scene.compared) :
                  d.frame_index = c.frame_index /\ d.against < skipped

(***************************************************************************)
(* Properties of the file watcher                                          *)
(***************************************************************************)
\* C25: the file watcher enqueues a video path only if the file's size is
\* non-zero and the same at two observations 500 ms apart; a file that is
\* missing, empty or still growing is never enqueued.
C25_OnlyStableFilesEnqueued ==
    \A k \in 1..Len(svc_enqueued) :
        LET metadata == FileMetadata(svc_enqueued[k])
        IN  /\ IsVideoFile(svc_enqueued[k])
            /\ metadata.exists /\ metadata.initial.ok /\ metadata.final.ok
            /\ metadata.initial.len > 0
            /\ metadata.final.len = metadata.initial.len
            /\ svc_enqueued[k] \notin {"missing", "empty", "growing", "vanishing"}

\* the watcher has handled every notified file and has enqueued one
C25_StableFileEnqueued ==
    /\ svc_enqueued # <<>>
    /\ fs_events = <<>>
    /\ FileMetadata(svc_enqueued[1]).final.len > 0

(***************************************************************************)
(* Properties of single calls of the detectors' functions                  *)
(***************************************************************************)
\* the critical_error patterns of the catalogue match the text
MatchesCriticalError(text) ==
    \E i \in 1..Len(CompiledPatterns) :
        /\ CompiledPatterns[i].pattern_type = "critical_error"
        /\ ContainsAny(text, CompiledPatterns[i].alternatives)

\* C26: a text that matches a critical_error pattern yields an event of type
\* SystemError and severity Critical, also when it matches patterns of
\* lower-severity families.
C26_CriticalErrorWins ==
    (/\ applied.function = "analyze_text_for_errors_modals"
     /\ MatchesCriticalError(applied.input[1])
     /\ applied.result # <<>>)
        => /\ applied.result[1].event_type = "system_error"
           /\ applied.result[1].severity = "critical"

\* C30: region matching partitions the current regions: each is either
\* matched, to a previous region of the largest IoU, that IoU being at least
\* the threshold, or reported as new; never both and never neither, an IoU
\* equal to the threshold included.
C30_RegionsPartitioned ==
    applied.function = "match_regions" =>
        LET current == applied.input[1]
            previous == applied.input[2]
            matched == {m[1] : m \in Range(applied.result[1])}
            new == Range(applied.result[2])
        IN  /\ matched \cup new = 1..Len(current)
            /\ matched \cap new = {}
            /\ \A m \in Range(applied.result[1]) :
                   /\ Iou(current[m[1]].roi, previous[m[2]].roi) >= MinIouThreshold
                   /\ \A p \in 1..Len(previous) :
                          Iou(current[m[1]].roi, previous[p].roi)
                              <= Iou(current[m[1]].roi, previous[m[2]].roi)

(***************************************************************************)
(* Properties of the frame cache                                           *)
(***************************************************************************)
\* C28: the frame cache is a bounded FIFO: it never holds more than
\* MaxCachedFrames frames, and a full cache evicts the least recently inserted
\* frame, so that it always holds the last MaxCachedFrames frames analysed.
C28_CacheHoldsLastFrames ==
    /\ Cardinality(frame_cache) <= MaxCachedFrames
    /\ {e.frame_id : e \in frame_cache}
         = {n \in 1..cache_frames : n > cache_frames - MaxCachedFrames}

(***************************************************************************)
(* Properties of the order of reads and writes within one frame            *)
(***************************************************************************)
\* C29: within the analysis of frame n every comparison and every emitted
\* event uses the cache as it was after frame n - 1: the frame compared with
\* was cached before the call and is not frame n, and a FieldChange carries as
\* its old value a text of that frame; the cache and the field states hold
\* frame n once the call has returned.
C29_FrameComparedWithEarlierState ==
    \A r \in Runs :
        LET detector == det[r].analyzer.event_detector
        IN  /\ det[r].previous \subseteq det[r].cached
            /\ det_frames \notin det[r].previous
            /\ \A e \in Range(det[r].events) :
                   e.event_type = "FieldChange" =>
                       \E c \in detector.previous_frame_cache :
                           /\ c.frame_id \in det[r].previous
                           /\ \E k \in 1..Len(c.results) :
                                  c.results[k].text = e.value_from.text
            /\ det[r].previous # {} =>
                   /\ \E c \in detector.previous_frame_cache : c.frame_id = det_frames
                   /\ \E s \in detector.field_tracker.fields : s.frame_id = det_frames

\* a frame has been compared with an earlier one and a FieldChange has come
\* out of the comparison
C29_FieldChangeFromEarlierFrame ==
    \E r \in Runs :
        /\ det[r].previous # {}
        /\ \E e \in Range(det[r].events) :
               /\ e.event_type = "FieldChange"
               /\ e.timestamp = det_frames

\* the correlations of a kind that analyze_correlations has returned so far
ReturnedOfKind(kind) ==
    {i \in 1..Len(corr_returned) : corr_returned[i].correlation_type = kind}

RECURSIVE SumOfConfidences(_)
SumOfConfidences(indices) ==
    IF indices = {} THEN 0
    ELSE LET i == CHOOSE i \in indices : TRUE
         IN  corr_returned[i].confidence + SumOfConfidences(indices \ {i})

\* C31: for every kind of correlation, after any sequence of analyze_correlations
\* calls the pattern's occurrence_count is the number of correlations of that
\* kind returned so far, and its confidence is their arithmetic mean
C31_PatternCountsAndMeans ==
    \A kind \in CorrelationKinds :
        /\ corr_patterns[kind].occurrence_count = Cardinality(ReturnedOfKind(kind))
        /\ ReturnedOfKind(kind) # {} =>
               corr_patterns[kind].confidence[1] * Cardinality(ReturnedOfKind(kind))
                   = corr_patterns[kind].confidence[2]
                         * SumOfConfidences(ReturnedOfKind(kind))

\* two analyses have returned correlations of one kind with different confidences
C31_KindSeenOverTwoAnalyses ==
    /\ corr_analyses = 2
    /\ \E kind \in CorrelationKinds :
           /\ corr_patterns[kind].occurrence_count >= 3
           /\ \E i, j \in ReturnedOfKind(kind) :
                  corr_returned[i].confidence # corr_returned[j].confidence

\* C33: over any sequence of analyze_correlations calls, one correlation between
\* the same two buffered events (same kind, same evidence) is returned at most once
C33_CorrelationReportedOnce ==
    \A i, j \in 1..Len(corr_returned) :
        (/\ i # j
         /\ corr_returned[i].correlated_events = corr_returned[j].correlated_events
         /\ corr_returned[i].correlation_type = corr_returned[j].correlation_type)
            => corr_returned[i].causal_strength # corr_returned[j].causal_strength

\* C35: a poll emits a window (tab) Navigation event only if the polled window
\* (tab) differs from the stored one in what identifies it (application, title,
\* id, URL or index: the application name here), so that polling an unchanged
\* window or tab a second time emits nothing
C35_EventOnlyOnChange ==
    nav_last.called =>
        /\ (\E i \in 1..Len(nav_last.targets) : nav_last.targets[i] = "window")
               => nav_last.window_before.app_name # previous_window_state.app_name
        /\ (\E i \in 1..Len(nav_last.targets) : nav_last.targets[i] = "tab")
               => nav_last.tab_before.app_name # previous_tab_state.app_name

\* C34: over any sequence of process_frame calls each observed focus change
\* and each observed click is inserted into the correlator's buffer at most
\* once; focus changes are recorded at least min_detection_interval_ms apart,
\* so two buffered events of one focus change are two with its timestamp
C34_FocusAndClickFedOnce ==
    \A i, j \in 1..Len(event_buffer) :
        (/\ i < j
         /\ event_buffer[i].event_type \in {"FocusChange", "CursorClick"}
         /\ event_buffer[i].event_type = event_buffer[j].event_type)
            => event_buffer[i].timestamp # event_buffer[j].timestamp

\* C36: a window change first observed less than min_detection_interval_ms
\* after the previous poll is not lost: of the later polls that find the new
\* window at least the interval after the poll before them, one emits the
\* Navigation event from the state before the change to the new state, so the
\* change never stays unreported over two such polls
C36_SuppressedChangeReported ==
    poll_pending.some => poll_pending.later_polls < 2

\* C37: query_by_frame_id is read-only: with encryption disabled a call
\* leaves the directory holding exactly the stored files it held before
C37_FrameQueryReadOnly ==
    (w_fquery.asked /\ ~encryption_enabled)
        => GetParquetFiles(output_dir) = w_fquery.before

\* C38: a tmp.parquet or query.tmp.parquet temporary, such as a failed write
\* or query leaves behind, is never among the files that the next query or
\* statistics call lists as stored data
C38_TemporariesNeverListed ==
    \A p \in GetParquetFiles(output_dir) : p[2] = "parquet"

\* C32: every video path the file watcher sends into the channel is in the end
\* received by start_watching and handed to process_video_segment (which
\* returns Ok or whose Err is logged), unless the process ends first
C32_EnqueuedEventuallyProcessed ==
    \A j \in 1..MaxSegments :
        (j <= Len(svc_enqueued))
            ~> (svc_pc = "exited" \/ j \in svc_processed \cup svc_logged)

\* C40: for every source frame rate above 0 and every extraction_fps in
\* (0, 30] the frame interval round(source_fps / extraction_fps) is at least
\* 1, so that frame_count % frame_interval is defined
C40_FrameIntervalAtLeastOne ==
    applied.function = "frame_interval" => applied.result[1] >= 1

vars == <<wvars, nvars, svars, dvars, uvars, pvars>>

\* C39: DeltaAnalyzer::analyze_frame is all-or-nothing: a call that returns
\* the event writer's Err leaves the detector's frame cache and field states
\* and the recent-frame sequence as they were before the call
C39_FailedAnalysisChangesNothing ==
    [][(long_late' = long_late + 1 /\ ~long_ok')
           => /\ long_analyzer'.event_detector = long_analyzer.event_detector
              /\ long_analyzer'.recent_frames = long_analyzer.recent_frames]_vars

\* the process has started; no writer has been constructed yet
Init ==
    /\ w_kind = "none"
    /\ current_batch = <<>>
    /\ batch_size = 0
    /\ encryption_enabled = FALSE
    /\ output_dir = [p \in Paths |-> NoFile]
    /\ clock = 0
    /\ w_written = <<>>
    /\ w_last = NoCall
    /\ w_failed_batch = <<>>
    /\ w_flushes = 0
    /\ w_query = NoQuery
    /\ w_fquery = NoFrameQuery
    /\ previous_window_state = NoWindow
    /\ previous_tab_state = NoTab
    /\ focus_history = <<>>
    /\ last_position = NoPosition
    /\ position_history = <<>>
    /\ click_history = <<>>
    /\ event_buffer = <<>>
    /\ event_writer_batch = <<>>
    /\ metrics = [navigation_events |-> 0, cursor_events |-> 0,
                  correlation_events |-> 0, error_count |-> 0,
                  total_events_detected |-> 0]
    /\ nav_clock = 0
    /\ nav_frames = 0
    /\ nav_halted = FALSE
    /\ nav_failed_frames = {}
    /\ nav_last = NoFrame
    /\ svc_pc = "main"
    /\ svc_exit = "none"
    /\ watch_dir = "absent"
    /\ fs_events = <<>>
    /\ svc_channel = <<>>
    /\ svc_enqueued = <<>>
    /\ svc_processed = {}
    /\ svc_logged = {}
    /\ csv_batch = <<>>
    /\ svc_finalized = FALSE
    /\ svc_shutdown = FALSE
    /\ keep_alive_phase = 0
    /\ det = [r \in Runs |-> NewAnalysis]
    /\ det_frames = 0
    /\ corr_buffer = <<>>
    /\ corr_added = 0
    /\ corr_bursts = 0
    /\ corr_last = NoCorrelatorCall
    /\ scene = NoSceneCall
    /\ applied = NoApplication
    /\ frame_cache = {}
    /\ cache_frames = 0
    /\ corr_patterns = NoPatterns
    /\ corr_returned = <<>>
    /\ corr_analyses = 0
    /\ poll_emitted = NoEmitted
    /\ poll_pending = NoPending
    /\ long_analyzer = NewAnalysis.analyzer
    /\ long_frames = 0
    /\ long_late = 0
    /\ long_ok = TRUE

\* one columnar writer
WSpec == Init /\ [][WNext]_vars

\* one columnar writer and the queries by frame id on it
QSpec == Init /\ [][QNext]_vars

\* the navigation service
NavSpec == Init /\ [][NNext]_vars

\* the indexer process
SvcSpec == Init /\ [][SNext]_vars

DSpec == Init /\ [][DNext]_vars

\* an event correlator on its own
CSpec == Init /\ [][CNext]_vars

\* an event correlator and its correlation patterns
PSpec == Init /\ [][PNext]_vars

\* a navigation detector polled for the frontmost window
PollSpec == Init /\ [][PollNext]_vars

\* a delta analyzer over a long run of frames
LongSpec == Init /\ [][LongNext]_vars

\* a scene detector
SceneSpec == Init /\ [][SceneNext]_vars

\* the detectors' functions, one call at a time
FSpec == Init /\ [][FNext]_vars

\* the event detector's frame cache
KSpec == Init /\ [][KNext]_vars

\* the indexer process under a runtime that keeps running what can run: the
\* spawned watcher task handles each notified file, and the main task goes on
\* through start_watching and the keep-alive loop
FairSvcSpec ==
    /\ SvcSpec
    /\ WF_vars(HandleFileEvent)
    /\ WF_vars(Main \/ StartWatching \/ WatcherStart \/ KeepAlive)
====
